---- MODULE Spec2Model ----
(***************************************************************************)
(* Model of the two traversal programs of src/main.js:                     *)
(*   "scrape"  : scrape-novel.js, main at lines 18-308, extractAContent at *)
(*               338-557 (records {chapterTitle, contents: [[..], ..]});   *)
(*   "catalog" : fetch_novel_playwright_catalog.js, main at lines 732-1056 *)
(*               (records {title, lines: [..]}).                           *)
(* Spec is the volume / chapter / page traversal of both programs, run up  *)
(* to MaxRuns times against one unchanged catalog.  SpecExtract is the     *)
(* per-node content classifier with its image capture.                     *)
(***************************************************************************)
EXTENDS Integers, Sequences, FiniteSets, TLC

\* ------------------------------------------------------------- bounds
MaxVolumes == 2
\* chapter entries of the whole catalog
MaxEntries == 2
MaxPages == 2
MaxRuns == 2
\* a click that does not change the page can repeat; the model stops counting here
MaxFollowFails == 1

Variants == {"scrape", "catalog"}

\* a chapter entry of the catalog either carries a usable link or does not
LinkKinds == {"ok", "missing"}

NoUrl == <<>>

\* ------------------------------------------------------------- state
VARIABLES
  variant,        \* which of the two programs runs
  site,           \* the catalog: a sequence of volumes, each a sequence of link kinds
  run,            \* number of the current run over the unchanged catalog
  pc,             \* position of main
  found,          \* number of volume containers main enumerated in this run
  v, c,           \* volume index, chapter index (1-based)
  disk,           \* chapter record files: <<v, c>> -> "none" | "full" | "empty" | "partial"
                  \* (no file, a record with content entries, a record without)
  nextChapterUrl, \* scrape: the variable of line 101
  pageNo,         \* page of the chain the open chapter page shows
  chain,          \* number of pages of the chapter being walked
  passes,         \* extraction passes of the chapter being walked
  title,          \* chapter title read for the chapter being walked
  followFails,    \* failed follow attempts in the chapter being walked
  openPages,      \* chapter pages opened and not closed
  writes,         \* chapter records written in the current run
  complete,       \* every linked chapter entry had a record when this run started
  last,           \* what the most recent step did
  handled,        \* chapter entries this run is done with, in the order it left them
  clean           \* nothing failed in this run so far

tvars == <<variant, site, run, pc, found, v, c, disk, nextChapterUrl, pageNo, chain,
           passes, title, followFails, openPages, writes, complete, last, handled, clean>>



VARIABLES
  xpc,       \* "idle", "nodes" while children remain, "end" when the container is done
  nodes,     \* the container's child nodes, in document order
  pos,       \* children handled so far
  result,    \* tokens emitted so far (result of extractAContent, chapterObj.lines)
  buffer,    \* catalog: the text buffer of line 950
  bufFrom,   \* children whose text is in the buffer
  files,     \* the pictures directory: file name -> the URL its bytes came from
  attempts,  \* capture strategies tried for the child handled by the last step
  xlast      \* the child handled by the last step

xvars == <<xpc, nodes, pos, result, buffer, bufFrom, files, attempts, xlast>>

\* the record checker, src/unnamed/part_000 (checkJsons.js)
VARIABLES
  vpc,       \* "idle", "parsed" when a value awaits validation, "validated" after it
  obj,       \* the parsed JSON value handed to validateJson
  errs,      \* the reasons validateJson returned
  bpc,       \* the batch check: "idle", "start", "walk", "exit"
  argv,      \* the root folder argument (a directory tree) or none
  todo,      \* entries walkDir has read and not yet handled, next first
  visited,   \* paths of the files the callback was called with, in order
  badFiles,  \* the badFiles array: paths reported
  exitCode   \* the code of process.exit, -1 while running

pvars == <<vpc, obj, errs, bpc, argv, todo, visited, badFiles, exitCode>>

\* the helper functions of src/main.js, called on their own
VARIABLES
  hpc,       \* "idle", "called" when the argument is set, "returned" after the call
  arg,       \* what the helper is called with
  ret        \* what it returned

\* the waits of extractAContent on one image (lines 424-552)
VARIABLES
  wpc,         \* "idle", "lazy", "stable", "capture", "done"
  lazyClock,   \* Date.now() - startLazy, in poll intervals
  lazySeen,    \* the samples st of the readiness poll, in order
  lazyReady,   \* the variable of line 431
  stableClock, \* Date.now() - startStable, in sampling intervals
  seen,        \* the samples rect of the stability loop, in order
  lastRect,    \* the variable of line 469
  stableCount, \* the variable of line 470
  shot,        \* how the capture went
  pushed       \* the reference token was pushed (line 550)

wvars == <<wpc, lazyClock, lazySeen, lazyReady, stableClock, seen, lastRect, stableCount,
           shot, pushed>>

hvars == <<hpc, arg, ret, wvars>>

vars == <<tvars, xvars, pvars, hvars>>

Paths == (1..MaxVolumes) \X (1..MaxEntries)

RECURSIVE Entries(_)
Entries(s) == IF s = <<>> THEN 0 ELSE Len(Head(s)) + Entries(Tail(s))

VolumeSeqs == UNION {[1..n -> LinkKinds] : n \in 0..MaxEntries}
Sites == {s \in UNION {[1..n -> VolumeSeqs] : n \in 0..MaxVolumes} : Entries(s) <= MaxEntries}

NoRec == [path |-> <<>>, title |-> "", contents |-> <<>>]

NoStep == [act |-> "init", ops |-> {}, existed |-> FALSE, rec |-> NoRec]

\* the chapter loop bound of the catalog program: for (cidx = 0; cidx < 2; cidx++)
CatalogChapterLimit == 2

walker == <<pageNo, chain, passes, title, followFails>>

\* the step is one where a navigation, an extraction, a footer read, a follow or a
\* write failed
Failed(step) ==
  /\ step.act # "CatalogIndexCrash"
  /\ \/ step.ops \cap {"threw", "failed", "abort"} # {}
     \/ step.act \in {"OpenCatalogFail", "OpenChapterFail", "Fallback", "FollowFail",
                      "FootlinkError"}

\* the bookkeeping of a step of main: the chapter entry it leaves behind (the
\* continue of lines 110-149 / 884-911, the end of the loop body at line 303 /
\* 1047) and whether something failed
Track ==
  /\ clean' = (clean /\ ~Failed(last'))
  /\ handled' = IF pc \in {"chapter", "write"} /\ c' = c + 1
                  THEN Append(handled, <<v, c>>)
                  ELSE handled

InChapter == v \in 1..found /\ c \in 1..Len(site[v])

Step(act, ops, existed) == [act |-> act, ops |-> ops, existed |-> existed, rec |-> NoRec]

\* a step that handed a record to the file system
WriteStep(act, ops, existed, rec) == [act |-> act, ops |-> ops, existed |-> existed, rec |-> rec]

\* a write that leaves no file
StoredNothing(rec) == "none"

\* what the record file holds after fs.writeFile(JSON.stringify(rec)) (line 294 /
\* lines 883, 889, 909, 1038): a record with or without content entries
Stored(rec) == IF rec.contents = <<>> THEN "empty" ELSE "full"

\* contents that leave out the passes without tokens
ContentsWithoutEmpty(ps) ==
  SelectSeq([i \in 1..Len(ps) |-> IF ps[i].out = "tokens" THEN "tokens" ELSE "empty"],
            LAMBDA e : e = "tokens")

\* contents of the record built at line 288-291: one entry per pass, [] for a pass
\* that threw or found no container
ContentsOf(ps) == [i \in 1..Len(ps) |-> IF ps[i].out = "tokens" THEN "tokens" ELSE "empty"]

\* lines of the catalog record: passes without lines add nothing
LinesOf(ps) == SelectSeq([i \in 1..Len(ps) |-> ps[i].out], LAMBDA o : o = "tokens")

NoFiles == [n \in {} |-> 0]
NoChild == [kind |-> "none", existed |-> FALSE, prior |-> <<>>, name |-> <<>>, at |-> 0]

NoValue == [type |-> "null"]

VIdle == vpc = "idle" /\ obj = NoValue /\ errs = <<>>

NoArg == [kind |-> "none"]

BIdle ==
  /\ bpc = "idle" /\ argv = NoArg /\ todo = <<>> /\ visited = <<>> /\ badFiles = <<>>
  /\ exitCode = -1

NoCall == [fn |-> "none"]

\* rect = null of lines 474, 490
NoRect == [null |-> TRUE]

NoShot == [how |-> "none", reread |-> FALSE]

CIdle == hpc = "idle" /\ arg = NoCall /\ ret = <<>>

WIdle ==
  /\ wpc = "idle" /\ lazyClock = 0 /\ lazySeen = <<>> /\ lazyReady = FALSE
  /\ stableClock = 0 /\ seen = <<>> /\ lastRect = NoRect /\ stableCount = 0
  /\ shot = NoShot /\ pushed = FALSE

HIdle == CIdle /\ WIdle

PIdle == VIdle /\ BIdle /\ HIdle

XIdle ==
  /\ xpc = "idle" /\ nodes = <<>> /\ pos = 0 /\ result = <<>> /\ buffer = <<>>
  /\ bufFrom = {} /\ files = NoFiles /\ attempts = <<>> /\ xlast = NoChild

Init ==
  /\ variant \in Variants
  /\ XIdle
  /\ PIdle
  /\ site \in Sites
  /\ run = 1
  /\ pc = "start"
  /\ found = 0
  /\ v = 0
  /\ c = 0
  /\ disk = [p \in Paths |-> "none"]
  /\ nextChapterUrl = NoUrl
  /\ pageNo = 0
  /\ chain = 0
  /\ passes = <<>>
  /\ title = ""
  /\ followFails = 0
  /\ openPages = 0
  /\ writes = 0
  /\ complete = FALSE
  /\ last = NoStep
  /\ handled = <<>>
  /\ clean = TRUE

\* page.goto(startUrl) succeeds (line 47 / line 760), volume containers are listed
OpenCatalog ==
  /\ pc = "start"
  /\ found' = Len(site)
  /\ v' = 1
  /\ pc' = "volume"
  /\ last' = Step("OpenCatalog", {"nav"}, FALSE)
  /\ UNCHANGED <<hvars, pvars, xvars, variant, site, run, c, disk, nextChapterUrl, walker, openPages, writes,
                 complete>>
  /\ Track

\* a first navigation that no program guards
CatalogOpenUncaught == FALSE

\* the try/catch around page.goto(startUrl): lines 46-50, none at line 760
CatalogOpenCaught == variant = "scrape"

\* page.goto(startUrl) throws: caught at lines 46-50 ("continuing"), uncaught at 760
OpenCatalogFail ==
  /\ pc = "start"
  /\ IF ~CatalogOpenCaught
       THEN /\ pc' = "aborted"
            /\ last' = Step("OpenCatalogFail", {"nav", "abort"}, FALSE)
            /\ UNCHANGED <<found, v>>
       ELSE /\ pc' = "volume"
            /\ v' = 1
            \* the page may hold no volume container, or the containers of a late load
            /\ found' \in {0, Len(site)}
            /\ last' = Step("OpenCatalogFail", {"nav"}, FALSE)
  /\ UNCHANGED <<hvars, pvars, xvars, variant, site, run, c, disk, nextChapterUrl, walker, openPages, writes,
                 complete>>
  /\ Track

\* catalog: the volume has a chapter and its first chapter has an anchor with an href
\* (lines 837-852)
FirstLinkOk(vol) == IF Len(vol) = 0 THEN FALSE ELSE vol[1] = "ok"

\* top of the volume loop: lines 62-101 / 767-862
StartVolume ==
  /\ pc = "volume"
  /\ v \in 1..found
  /\ variant = "catalog" => FirstLinkOk(site[v])
  /\ nextChapterUrl' = NoUrl
  /\ c' = 1
  /\ pc' = "chapter"
  /\ last' = Step("StartVolume", {}, FALSE)
  /\ UNCHANGED <<hvars, pvars, xvars, variant, site, run, found, v, disk, walker, openPages, writes, complete>>
  /\ Track

\* catalog: a volume without chapters, or whose first chapter has no link, is skipped
\* (lines 837-852)
SkipVolume ==
  /\ pc = "volume"
  /\ variant = "catalog"
  /\ v \in 1..found
  /\ ~FirstLinkOk(site[v])
  /\ v' = v + 1
  /\ last' = Step("SkipVolume", {}, FALSE)
  /\ UNCHANGED <<hvars, pvars, xvars, variant, site, run, pc, found, c, disk, nextChapterUrl, walker,
                 openPages, writes, complete>>
  /\ Track

\* the volume loop is exhausted
EndVolumes ==
  /\ pc = "volume"
  /\ v > found
  /\ pc' = "finish"
  /\ last' = Step("EndVolumes", {}, FALSE)
  /\ UNCHANGED <<hvars, pvars, xvars, variant, site, run, found, v, c, disk, nextChapterUrl, walker,
                 openPages, writes, complete>>
  /\ Track

\* scrape: the chapter loop of a volume is exhausted (line 102, 303)
NextVolume ==
  /\ pc = "chapter"
  /\ variant = "scrape"
  /\ c > Len(site[v])
  /\ v' = v + 1
  /\ pc' = "volume"
  /\ last' = Step("NextVolume", {}, FALSE)
  /\ UNCHANGED <<hvars, pvars, xvars, variant, site, run, found, c, disk, nextChapterUrl, walker, openPages,
                 writes, complete>>
  /\ Track

\* catalog: after CatalogChapterLimit chapters the volume loop is left (lines 870, 1048)
CatalogBreak ==
  /\ pc = "chapter"
  /\ variant = "catalog"
  /\ c > CatalogChapterLimit
  /\ pc' = "finish"
  /\ last' = Step("CatalogBreak", {}, FALSE)
  /\ UNCHANGED <<hvars, pvars, xvars, variant, site, run, found, v, c, disk, nextChapterUrl, walker,
                 openPages, writes, complete>>
  /\ Track

\* catalog: chapterLis[cidx] is undefined for a volume with fewer chapters than the
\* loop bound; li.evaluate throws out of main (lines 870-873)
CatalogIndexCrash ==
  /\ pc = "chapter"
  /\ variant = "catalog"
  /\ c <= CatalogChapterLimit
  /\ c > Len(site[v])
  /\ pc' = "crashed"
  /\ last' = Step("CatalogIndexCrash", {"abort"}, FALSE)
  /\ UNCHANGED <<hvars, pvars, xvars, variant, site, run, found, v, c, disk, nextChapterUrl, walker,
                 openPages, writes, complete>>
  /\ Track

\* the chapter entry main is about to handle
AtChapter ==
  /\ pc = "chapter"
  /\ InChapter
  /\ variant = "catalog" => c <= CatalogChapterLimit

\* scrape: fs.access(jsonPath) succeeds, continue (lines 107-117)
ResumeSkip ==
  /\ AtChapter
  /\ variant = "scrape"
  /\ disk[<<v, c>>] # "none"
  /\ c' = c + 1
  /\ last' = Step("ResumeSkip", {}, TRUE)
  /\ UNCHANGED <<hvars, pvars, xvars, variant, site, run, pc, found, v, disk, nextChapterUrl, walker,
                 openPages, writes, complete>>
  /\ Track

\* a resume check that never looks at the record file
PastResumeUnchecked == TRUE

\* the resume check of the scrape program lets the chapter through
PastResume == variant = "scrape" => disk[<<v, c>>] = "none"

Existed == disk[<<v, c>>] # "none"

\* an empty record that loses the chapter title
EmptyRecordUntitled == [path |-> <<v, c>>, title |-> "", contents |-> <<>>]

\* the empty record the catalog program writes for a chapter it cannot walk
\* (lines 883, 889, 902-909)
EmptyRecord == [path |-> <<v, c>>, title |-> "T", contents |-> <<>>]

\* the chapter entry has no anchor, or its anchor has no href.
\* scrape: warn and continue (lines 119-136).
\* catalog: fs.writeFileSync of {title, lines: []}, outside any try (lines 881-892)
MissingLink ==
  /\ AtChapter
  /\ PastResume
  /\ site[v][c] = "missing"
  /\ \E why \in {"noanchor", "nohref"}, wrote \in BOOLEAN :
       IF variant = "scrape"
         THEN /\ wrote = FALSE
              /\ c' = c + 1
              /\ last' = Step(why, {}, Existed)
              /\ UNCHANGED <<pc, disk, writes>>
         ELSE IF wrote
           THEN /\ disk' = [disk EXCEPT ![<<v, c>>] = Stored(EmptyRecord)]
                /\ writes' = writes + 1
                /\ c' = c + 1
                /\ last' = WriteStep(why, {"write"}, Existed, EmptyRecord)
                /\ UNCHANGED <<pc>>
           ELSE /\ pc' = "crashed"
                /\ last' = WriteStep(why, {"write", "abort"}, Existed, EmptyRecord)
                /\ UNCHANGED <<c, disk, writes>>
  /\ UNCHANGED <<hvars, pvars, xvars, variant, site, run, found, v, nextChapterUrl, walker, openPages, complete>>
  /\ Track

\* the title the walk starts with: #atitle read at lines 160-166 ("" when it cannot
\* be read); the catalog entry's text at lines 873-874 (never empty)
Titles == IF variant = "scrape" THEN {"T", ""} ELSE {"T"}

\* context.newPage() and a first goto that succeeds (lines 138-141 / 899-905)
OpenChapter ==
  /\ AtChapter
  /\ PastResume
  /\ site[v][c] = "ok"
  /\ openPages' = openPages + 1
  /\ pageNo' = 1
  /\ chain' \in 1..MaxPages
  /\ title' \in Titles
  /\ passes' = <<>>
  /\ followFails' = 0
  /\ pc' = "extract"
  /\ last' = Step("OpenChapter", {"nav"}, Existed)
  /\ UNCHANGED <<hvars, pvars, xvars, variant, site, run, found, v, c, disk, nextChapterUrl, writes, complete>>
  /\ Track

\* the first goto throws.
\* catalog: close the page, write the record with no lines, continue (lines 906-911).
\* scrape: goto(origin + nextChapterUrl) (lines 142-150); with no recorded URL the
\* address is no host and the goto throws; when it throws, continue without closing
\* the page and without a record; when it succeeds the walk goes on from that page
OpenChapterFail ==
  /\ AtChapter
  /\ PastResume
  /\ site[v][c] = "ok"
  /\ IF variant = "catalog"
       THEN /\ \E wrote \in BOOLEAN :
                 IF wrote
                   THEN /\ disk' = [disk EXCEPT ![<<v, c>>] = Stored(EmptyRecord)]
                        /\ writes' = writes + 1
                        /\ c' = c + 1
                        /\ last' = WriteStep("OpenChapterFail", {"nav", "write"}, Existed,
                                              EmptyRecord)
                        /\ UNCHANGED pc
                   ELSE /\ pc' = "crashed"
                        /\ last' = WriteStep("OpenChapterFail", {"nav", "write", "abort"},
                                              Existed, EmptyRecord)
                        /\ UNCHANGED <<c, disk, writes>>
            /\ UNCHANGED <<walker, openPages>>
       ELSE /\ \E second \in BOOLEAN :
                 /\ second => nextChapterUrl # NoUrl
                 /\ IF second
                      THEN /\ pageNo' = 1
                           /\ chain' \in 1..MaxPages
                           /\ title' \in Titles
                           /\ passes' = <<>>
                           /\ followFails' = 0
                           /\ pc' = "extract"
                           /\ last' = Step("Fallback", {"nav"}, Existed)
                           /\ UNCHANGED c
                      ELSE /\ c' = c + 1
                           /\ last' = Step("OpenChapterFail", {"nav"}, Existed)
                           /\ UNCHANGED <<pc, walker>>
            /\ openPages' = openPages + 1
            /\ UNCHANGED <<disk, writes>>
  /\ UNCHANGED <<hvars, pvars, xvars, variant, site, run, found, v, nextChapterUrl, complete>>
  /\ Track

\* one pass of the page loop up to the footer check: the extraction of the current
\* page.  scrape (lines 175-224): the page's tokens, or [] when there is no
\* container or extractAContent throws.  catalog (lines 915-1002): fullScroll and
\* the evaluate calls are outside any try, so a throw leaves main
ExtractPass ==
  /\ pc = "extract"
  /\ \E out \in {"tokens", "empty", "error"} :
       IF variant = "catalog" /\ out = "error"
         THEN /\ pc' = "crashed"
              /\ last' = Step("ExtractPass", {"extract", "abort"}, FALSE)
              /\ UNCHANGED passes
         ELSE /\ passes' = Append(passes, [page |-> pageNo,
                                            out |-> IF out = "error" THEN "empty" ELSE out])
              /\ pc' = "checknext"
              /\ last' = Step("ExtractPass",
                              IF out = "error" THEN {"extract", "threw"} ELSE {"extract"},
                              FALSE)
  /\ UNCHANGED <<hvars, pvars, xvars, variant, site, run, found, v, c, disk, nextChapterUrl, pageNo, chain,
                 title, followFails, openPages, writes, complete>>
  /\ Track

\* the last footer link reads the next-page sentinel exactly on the pages before the
\* last page of the chain
ShowsNextPage == pageNo < chain

\* a followed sentinel that leaves hasNext false
AfterFollowStops == "write"

\* where the page loop goes after the sentinel was followed: hasNext = true
\* (line 273), the loop of line 915 goes on after line 1021
AfterFollow == "extract"

\* the sentinel is found, the click is followed and the next page of the chain loads
\* (lines 234-273 / 1015-1021)
FollowOk ==
  /\ pc = "checknext"
  /\ ShowsNextPage
  /\ pageNo' = pageNo + 1
  /\ pc' = AfterFollow
  /\ last' = Step("FollowOk", {"follow"}, FALSE)
  /\ UNCHANGED <<hvars, pvars, xvars, variant, site, run, found, v, c, disk, nextChapterUrl, chain, passes,
                 title, followFails, openPages, writes, complete>>
  /\ Track

\* where the page loop goes when the sentinel was found and following it failed.
\* scrape: click and both waits swallow their errors and hasNext = true (lines
\* 247-273), so the loop runs again.  catalog: the catch sets hasNextPage = false
\* (lines 1022-1026), so the loop ends
AfterFailedFollow == IF variant = "scrape" THEN "extract" ELSE "write"

\* the sentinel is found but the click fails, no navigation happens and the content
\* container does not change: the chapter page still shows the same page
FollowFail ==
  /\ pc = "checknext"
  /\ ShowsNextPage
  /\ followFails < MaxFollowFails
  /\ followFails' = followFails + 1
  /\ pc' = AfterFailedFollow
  /\ last' = Step("FollowFail", {"follow"}, FALSE)
  /\ UNCHANGED <<hvars, pvars, xvars, variant, site, run, found, v, c, disk, nextChapterUrl, pageNo, chain,
                 passes, title, openPages, writes, complete>>
  /\ Track

\* reading the footer throws.  scrape: caught at lines 280-282, hasNext stays false.
\* catalog: lines 1006-1014 are outside any try
FootlinkError ==
  /\ pc = "checknext"
  /\ IF variant = "scrape"
       THEN /\ pc' = "write"
            /\ last' = Step("FootlinkError", {}, FALSE)
       ELSE /\ pc' = "crashed"
            /\ last' = Step("FootlinkError", {"abort"}, FALSE)
  /\ UNCHANGED <<hvars, pvars, xvars, variant, site, run, found, v, c, disk, nextChapterUrl, walker,
                 openPages, writes, complete>>
  /\ Track

\* a footer check that records nothing
RecordedNever(kind) == nextChapterUrl

\* nextChapterUrl after the footer check: window.ReadParams.url_next when the last
\* link reads the next-chapter sentinel (lines 274-278); the catalog program has
\* no such branch (lines 1015-1028)
Recorded(kind) ==
  IF variant = "scrape" /\ kind = "nextChapter" THEN <<v, c>> ELSE nextChapterUrl

\* the last page of the chain: no footer link, another link, or the next-chapter
\* sentinel, whose URL the scrape program stores (lines 274-278)
EndOfChain ==
  /\ pc = "checknext"
  /\ ~ShowsNextPage
  /\ \E kind \in {"other", "nextChapter"} :
       /\ nextChapterUrl' = Recorded(kind)
       /\ last' = Step("EndOfChain", IF kind = "nextChapter" THEN {"sentinel"} ELSE {}, FALSE)
  /\ pc' = "write"
  /\ UNCHANGED <<hvars, pvars, xvars, variant, site, run, found, v, c, disk, walker, openPages, writes,
                 complete>>
  /\ Track

\* the record built from the walk: lines 287-291 / 902, 955-998
BuiltRecord ==
  [path |-> <<v, c>>, title |-> title,
   contents |-> IF variant = "scrape" THEN ContentsOf(passes) ELSE LinesOf(passes)]

\* write the record inside try/catch, close the chapter page, next chapter
\* (lines 293-303 / 1037-1046)
WriteRecord ==
  /\ pc = "write"
  /\ \E ok \in BOOLEAN :
       IF ok
         THEN /\ disk' = [disk EXCEPT ![<<v, c>>] = Stored(BuiltRecord)]
              /\ writes' = writes + 1
              /\ last' = WriteStep("WriteRecord", {"write"}, FALSE, BuiltRecord)
         ELSE /\ last' = WriteStep("WriteRecord", {"write", "failed"}, FALSE, BuiltRecord)
              /\ UNCHANGED <<disk, writes>>
  /\ openPages' = openPages - 1
  /\ c' = c + 1
  /\ pc' = "chapter"
  /\ pageNo' = 0
  /\ chain' = 0
  /\ passes' = <<>>
  /\ title' = ""
  /\ followFails' = 0
  /\ UNCHANGED <<hvars, pvars, xvars, variant, site, run, found, v, nextChapterUrl, complete>>
  /\ Track

\* browser.close() and return (lines 306-307 / 1051-1055)
Finish ==
  /\ pc = "finish"
  /\ pc' = "done"
  /\ openPages' = 0
  /\ last' = Step("Finish", {}, FALSE)
  /\ UNCHANGED <<hvars, pvars, xvars, variant, site, run, found, v, c, disk, nextChapterUrl, walker, writes,
                 complete>>
  /\ Track

\* every chapter entry of the catalog that has a link has a record file
AllRecorded ==
  \A i \in 1..Len(site) : \A j \in 1..Len(site[i]) :
    site[i][j] = "ok" => disk[<<i, j>>] # "none"

\* the record a write at the current position of main hands to the file system:
\* the record built from the walk (line 294 / 1038), or the empty record of the
\* catalog program at the top of the chapter loop (lines 883, 889, 909)
InFlight ==
  IF pc = "write" THEN {BuiltRecord}
  ELSE IF variant = "catalog" /\ AtChapter THEN {EmptyRecord}
  ELSE {}

\* what a killed fs.writeFile / fs.writeFileSync leaves of the file it writes in
\* place (flag 'w', no temporary file and rename): the file as it was before the
\* call, a file cut short, or the whole record
Interrupted(rec) == {disk[rec.path], "partial", Stored(rec)}

\* the process is killed (neither program installs a signal handler): its memory
\* and the browser are gone, the output folder stays as the kill found it.  Kills
\* are followed up to the last run but one
Interrupt ==
  /\ pc \notin {"done", "aborted", "crashed", "killed"}
  /\ run < MaxRuns
  /\ IF InFlight = {}
       THEN UNCHANGED disk
       ELSE \E rec \in InFlight : \E left \in Interrupted(rec) :
              disk' = [disk EXCEPT ![rec.path] = left]
  /\ last' = Step("Interrupt", {"kill"}, FALSE)
  /\ pc' = "killed"
  /\ found' = 0
  /\ v' = 0
  /\ c' = 0
  /\ nextChapterUrl' = NoUrl
  /\ pageNo' = 0
  /\ chain' = 0
  /\ passes' = <<>>
  /\ title' = ""
  /\ followFails' = 0
  /\ openPages' = 0
  /\ handled' = <<>>
  /\ clean' = FALSE
  /\ UNCHANGED <<hvars, pvars, xvars, variant, site, run, writes, complete>>

\* the program is started again on the same catalog and the same output folder
Rerun ==
  /\ pc \in {"done", "killed"}
  /\ run < MaxRuns
  /\ run' = run + 1
  /\ pc' = "start"
  /\ found' = 0
  /\ v' = 0
  /\ c' = 0
  /\ nextChapterUrl' = NoUrl
  /\ writes' = 0
  /\ complete' = AllRecorded
  /\ last' = NoStep
  /\ handled' = <<>>
  /\ clean' = TRUE
  /\ UNCHANGED <<hvars, pvars, xvars, variant, site, disk, walker, openPages>>

\* ------------------------------------------------------ content classifier
\* Strings are sequences of one-character strings.

Digits == {"0", "1", "2", "3", "4", "5", "6", "7", "8", "9"}

\* String.prototype.trim over the model's only white-space character
RECURSIVE TrimLeft(_)
TrimLeft(s) == IF s # <<>> /\ Head(s) = " " THEN TrimLeft(Tail(s)) ELSE s

RECURSIVE TrimRight(_)
TrimRight(s) ==
  IF s # <<>> /\ s[Len(s)] = " " THEN TrimRight(SubSeq(s, 1, Len(s) - 1)) ELSE s

trim(s) == TrimRight(TrimLeft(s))

\* pathname.split("/").filter(Boolean)
RECURSIVE SplitAcc(_, _, _)
SplitAcc(s, cur, acc) ==
  IF s = <<>> THEN (IF cur = <<>> THEN acc ELSE Append(acc, cur))
  ELSE IF Head(s) = "/"
    THEN SplitAcc(Tail(s), <<>>, IF cur = <<>> THEN acc ELSE Append(acc, cur))
    ELSE SplitAcc(Tail(s), Append(cur, Head(s)), acc)

Segments(s) == SplitAcc(s, <<>>, <<>>)

\* s.match(/\d+/g): the maximal digit runs of s, in order
RECURSIVE MatchAcc(_, _, _)
MatchAcc(s, cur, acc) ==
  IF s = <<>> THEN (IF cur = <<>> THEN acc ELSE Append(acc, cur))
  ELSE IF Head(s) \in Digits
    THEN MatchAcc(Tail(s), Append(cur, Head(s)), acc)
    ELSE MatchAcc(Tail(s), <<>>, IF cur = <<>> THEN acc ELSE Append(acc, cur))

DigitGroups(s) == MatchAcc(s, <<>>, <<>>)

RECURSIVE Join(_)
Join(ss) == IF ss = <<>> THEN <<>> ELSE Head(ss) \o Join(Tail(ss))

\* scheme and host of the page the images are resolved against
Origin == <<"h", ":">>

HasOrigin(url) == Len(url) >= Len(Origin) /\ SubSeq(url, 1, Len(Origin)) = Origin

\* new URL(src, base).href for a src that is an absolute path
Resolve(src) == IF HasOrigin(src) THEN src ELSE Origin \o src

\* new URL(..).pathname
Pathname(url) == IF HasOrigin(url) THEN SubSeq(url, Len(Origin) + 1, Len(url)) ELSE url

NoId == <<>>

\* an id made of every digit group of the path
extractImageIdAllDigits(src) ==
  IF src = <<>> THEN NoId ELSE Join(DigitGroups(Pathname(src)))

\* lines 562-576: the last digit group of the last path segment, or null
extractImageIdFromSrc(src) ==
  IF src = <<>> THEN NoId
  ELSE LET parts == Segments(Pathname(src))
           base == IF parts # <<>> THEN parts[Len(parts)] ELSE Pathname(src)
           matches == DigitGroups(base)
       IN IF matches # <<>> THEN matches[Len(matches)] ELSE NoId

\* lastIndexOf("."), 0 when there is none
RECURSIVE LastDot(_)
LastDot(s) == IF s = <<>> THEN 0 ELSE IF s[Len(s)] = "." THEN Len(s)
              ELSE LastDot(SubSeq(s, 1, Len(s) - 1))

\* lines 653-661: the extension of the last path segment, ".jpg" without one
getExtFromUrl(url) ==
  LET parts == Segments(Pathname(url))
      base == IF parts # <<>> THEN parts[Len(parts)] ELSE <<>>
      dot == LastDot(base)
  IN IF dot > 0 THEN SubSeq(base, dot, Len(base)) ELSE <<".", "j", "p", "g">>

\* a file name made of the digits of the last path segment only
imageFilenameLastSegment(src, now) ==
  LET parts == Segments(Pathname(src))
      digits == DigitGroups(IF parts # <<>> THEN parts[Len(parts)] ELSE <<>>)
      name == IF Join(digits) # <<>> THEN Join(digits) ELSE now
  IN name \o getExtFromUrl(src)

\* lines 663-675: every digit group of the path joined, then the extension;
\* the time when the path has no digit
imageFilenameFromSrc(src, now) ==
  LET digits == DigitGroups(Pathname(src))
      name == IF Join(digits) # <<>> THEN Join(digits) ELSE now
  IN name \o getExtFromUrl(src)

Png == <<".", "p", "n", "g">>

\* line 534-535: the file the scrape program saves an image to
savePath(src, now) ==
  (IF extractImageIdFromSrc(src) # NoId THEN extractImageIdFromSrc(src) ELSE now) \o Png

\* Date.now() as text
Timestamps == {<<"T", "a">>, <<"T", "b">>}

\* child nodes of the content container
MaxNodes == 4

U12 == <<"/", "i", "/", "1", "2", ".", "j", "p", "g">>
U312 == <<"/", "k", "3", "/", "1", "2", ".", "j", "p", "g">>
NoSrc == <<>>

SrcPool == {U12, U312, NoSrc}

NodePool ==
  {[kind |-> "text", text |-> t, src |-> NoSrc] : t \in {<<"a">>, <<"b">>, <<" ">>}}
  \cup {[kind |-> "br", text |-> <<>>, src |-> NoSrc]}
  \cup {[kind |-> "img", text |-> <<>>, src |-> u] : u \in SrcPool}
  \cup {[kind |-> "p", text |-> <<" ", "a">>, src |-> NoSrc]}
  \cup {[kind |-> k, text |-> <<"a">>, src |-> NoSrc] : k \in {"center", "other"}}

NodeSeqs == UNION {[1..n -> NodePool] : n \in 1..MaxNodes}


Token(kind, val, url, from) == [kind |-> kind, val |-> val, url |-> url, from |-> from]

Save(fs, name, what) == [n \in DOMAIN fs \cup {name} |-> IF n = name THEN what ELSE fs[n]]

\* an existence test that never finds the file
fileNeverExists(name) == FALSE

\* lines 581-587
fileExistsSync(name) == name \in DOMAIN files

Child(kind) == [kind |-> kind, existed |-> FALSE, prior |-> <<>>, name |-> <<>>, at |-> pos + 1]

TIdle ==
  /\ site = <<>> /\ run = 1 /\ pc = "idle" /\ found = 0 /\ v = 0 /\ c = 0
  /\ disk = [p \in Paths |-> "none"] /\ nextChapterUrl = NoUrl /\ pageNo = 0
  /\ chain = 0 /\ passes = <<>> /\ title = "" /\ followFails = 0 /\ openPages = 0
  /\ writes = 0 /\ complete = FALSE /\ last = NoStep /\ handled = <<>> /\ clean = TRUE

InitExtract ==
  /\ variant \in Variants
  /\ TIdle
  /\ PIdle
  /\ xpc = "nodes"
  /\ nodes \in NodeSeqs
  /\ pos = 0
  /\ result = <<>>
  /\ buffer = <<>>
  /\ bufFrom = {}
  /\ files = NoFiles
  /\ attempts = <<>>
  /\ xlast = NoChild

Cur == nodes[pos + 1]

Advance ==
  /\ pos' = pos + 1
  /\ xpc' = IF variant = "scrape" /\ pos + 1 = Len(nodes) THEN "end" ELSE xpc

\* a text node.  scrape (lines 359-366): its trimmed text is a line unless empty.
\* catalog (lines 952-953): its text is appended to the buffer
ClassifyText ==
  /\ xpc = "nodes" /\ pos < Len(nodes)
  /\ Cur.kind = "text"
  /\ IF variant = "scrape"
       THEN /\ result' = IF trim(Cur.text) # <<>>
                           THEN Append(result, Token("text", trim(Cur.text), <<>>, {pos + 1}))
                           ELSE result
            /\ UNCHANGED <<buffer, bufFrom>>
       ELSE /\ buffer' = buffer \o Cur.text
            /\ bufFrom' = bufFrom \cup {pos + 1}
            /\ UNCHANGED result
  /\ Advance
  /\ attempts' = <<>>
  /\ xlast' = Child("text")
  /\ UNCHANGED <<nodes, files, tvars, pvars, hvars>>

\* the line a br gives: "" (line 390), the buffer (line 955)
BrLine ==
  IF variant = "scrape" THEN Token("text", <<>>, <<>>, {pos + 1})
  ELSE Token("text", buffer, <<>>, bufFrom \cup {pos + 1})

\* a br that gives a line only when the line is not empty
AfterBreakNonEmpty == IF BrLine.val # <<>> THEN Append(result, BrLine) ELSE result

\* result.push("") of line 390, chapterObj.lines.push(buffer) of line 955
AfterBreak == Append(result, BrLine)

\* a br element.  scrape (lines 389-391): an empty line.  catalog (lines 954-956):
\* the buffer, whatever it holds, becomes a line
ClassifyBreak ==
  /\ xpc = "nodes" /\ pos < Len(nodes)
  /\ Cur.kind = "br"
  /\ result' = AfterBreak
  /\ IF variant = "scrape"
       THEN UNCHANGED <<buffer, bufFrom>>
       ELSE /\ buffer' = <<>>
            /\ bufFrom' = {}
  /\ Advance
  /\ attempts' = <<>>
  /\ xlast' = Child("br")
  /\ UNCHANGED <<nodes, files, tvars, pvars, hvars>>

\* the caption string of line 394
Caption(text) == <<"(", "(">> \o text \o <<")", ")">>

\* an element whose text is left out
OtherTextDropped(node) == <<>>

\* { type: "other", text: n.textContent || "" } of line 943
OtherText(node) == node.text

\* an element that is no br and no img.  scrape (lines 385-400): p gives its trimmed
\* text unless empty, center gives ((text)), any other element is dropped.
\* catalog (lines 942-944, 952-953): its text is appended to the buffer
ClassifyElement ==
  /\ xpc = "nodes" /\ pos < Len(nodes)
  /\ Cur.kind \in {"p", "center", "other"}
  /\ IF variant = "scrape"
       THEN /\ result' =
                 IF Cur.kind = "p" /\ trim(Cur.text) # <<>>
                   THEN Append(result, Token("text", trim(Cur.text), <<>>, {pos + 1}))
                 ELSE IF Cur.kind = "center"
                   THEN Append(result, Token("caption", Caption(trim(Cur.text)), <<>>, {pos + 1}))
                 ELSE result
            /\ UNCHANGED <<buffer, bufFrom>>
       ELSE /\ buffer' = buffer \o OtherText(Cur)
            /\ bufFrom' = bufFrom \cup {pos + 1}
            /\ UNCHANGED result
  /\ Advance
  /\ attempts' = <<>>
  /\ xlast' = Child(Cur.kind)
  /\ UNCHANGED <<nodes, files, tvars, pvars, hvars>>

\* the two file-name derivations over the sources of the node pool
ScrapeId == [u \in SrcPool |-> extractImageIdFromSrc(u)]
ScrapeName == [u \in SrcPool, t \in Timestamps \cup {NoId} |-> savePath(u, t)]
CatalogDigits == [u \in SrcPool |-> Join(DigitGroups(Pathname(Resolve(u))))]
CatalogName ==
  [u \in SrcPool, t \in Timestamps \cup {NoId} |-> imageFilenameFromSrc(Resolve(u), t)]

\* the file name without its extension
Stem(name) == IF LastDot(name) > 0 THEN SubSeq(name, 1, LastDot(name) - 1) ELSE name

\* scrape, lines 534-548: the capture of an image whose file is `name`.  Nothing is
\* tried when the file exists; else the element screenshot is tried when the
\* sampled rectangle is valid
ScrapeAttempts(name, rectOk, shotOk) ==
  IF fileExistsSync(name) THEN <<>>
  ELSE IF rectOk THEN <<[s |-> "snapshot", ok |-> shotOk]>>
  ELSE <<>>

\* a download that makes the context request whatever the fetch gave
CatalogAttemptsBoth(fetchOk, reqOk) ==
  <<[s |-> "fetch", ok |-> fetchOk], [s |-> "request", ok |-> reqOk]>>

\* catalog, lines 971-981: the in-page fetch, then the context request when the
\* fetch threw
CatalogAttempts(fetchOk, reqOk) ==
  IF fetchOk THEN <<[s |-> "fetch", ok |-> TRUE]>>
  ELSE <<[s |-> "fetch", ok |-> FALSE], [s |-> "request", ok |-> reqOk]>>

\* a capture taken to have written its file whatever it threw
SucceededAlways(as) == as # <<>>

\* scrape, lines 539-543: the screenshot wrote the file unless it threw
Succeeded(as) == \E i \in 1..Len(as) : as[i].ok

\* pending text that is dropped when an image is met
FlushedDropped == result

\* catalog, line 958-961: text pending in the buffer becomes a line before the image
Flushed == IF Len(buffer) > 0
             THEN Append(result, Token("text", buffer, <<>>, bufFrom))
             ELSE result

\* a name that never falls back on the time
NowsNever(src, derived) == {NoId}

\* Date.now() is read only when the source gives no name
Nows(src, derived) == IF derived = NoId THEN Timestamps ELSE {NoId}

\* the outcome of a step that is only taken under `taken`
Outcomes(taken) == IF taken THEN BOOLEAN ELSE {FALSE}

\* an img element.
\* scrape (lines 405-550): the id comes from src (the time when src has no digit
\* in its last segment, or is empty), and (((id))) is always pushed.
\* catalog (lines 957-995): an img without src is skipped; else the file name comes
\* from the resolved URL, the bytes are saved when a download gave some, and the
\* marker is always pushed
ClassifyImage ==
  /\ xpc = "nodes" /\ pos < Len(nodes)
  /\ Cur.kind = "img"
  /\ IF variant = "scrape"
       THEN \E now \in Nows(Cur.src, ScrapeId[Cur.src]) :
              LET name == ScrapeName[Cur.src, now]
              IN \E rectOk \in Outcomes(~fileExistsSync(name)) :
                 \E shotOk \in Outcomes(rectOk) :
                   LET as == ScrapeAttempts(name, rectOk, shotOk)
                   IN /\ attempts' = as
                      /\ files' = IF Succeeded(as) THEN Save(files, name, Cur.src) ELSE files
                      /\ result' = Append(result, Token("image", Stem(name), <<>>, {pos + 1}))
                      /\ xlast' = [kind |-> "img", existed |-> name \in DOMAIN files,
                                   prior |-> IF name \in DOMAIN files THEN files[name] ELSE <<>>,
                                   name |-> name, at |-> pos + 1]
                      /\ UNCHANGED <<buffer, bufFrom>>
       ELSE IF Cur.src = NoSrc
         THEN /\ result' = Flushed
              /\ buffer' = <<>>
              /\ bufFrom' = {}
              /\ attempts' = <<>>
              /\ xlast' = Child("img")
              /\ UNCHANGED files
         ELSE \E now \in Nows(Cur.src, CatalogDigits[Cur.src]) :
                LET imgUrl == Resolve(Cur.src)
                    name == CatalogName[Cur.src, now]
                IN \E fetchOk \in BOOLEAN :
                   \E reqOk \in Outcomes(~fetchOk) :
                   \E saved \in Outcomes(fetchOk \/ reqOk) :
                     LET as == CatalogAttempts(fetchOk, reqOk)
                     IN /\ attempts' = as
                        /\ files' = IF saved THEN Save(files, name, imgUrl) ELSE files
                        /\ result' = Append(Flushed, Token("image", name, imgUrl, {pos + 1}))
                        /\ buffer' = <<>>
                        /\ bufFrom' = {}
                        /\ xlast' = [kind |-> "img", existed |-> name \in DOMAIN files,
                                     prior |-> IF name \in DOMAIN files THEN files[name] ELSE <<>>,
                                     name |-> name, at |-> pos + 1]
  /\ Advance
  /\ UNCHANGED <<nodes, tvars, pvars, hvars>>

\* catalog, lines 997-1000: after the last child, text left in the buffer is a line
FinishContainer ==
  /\ xpc = "nodes" /\ pos = Len(nodes)
  /\ variant = "catalog"
  /\ result' = Flushed
  /\ buffer' = <<>>
  /\ bufFrom' = {}
  /\ xpc' = "end"
  /\ attempts' = <<>>
  /\ xlast' = [NoChild EXCEPT !.kind = "end"]
  /\ UNCHANGED <<nodes, pos, files, tvars, pvars, hvars>>

\* --------------------------------------------------------- record checker
\* JSON values are records with a type; an object carries its own properties as a
\* function from their names, an array its items, a string its characters.

TitleChars == {" ", "t"}

\* contents arrays of the records checked
MaxContents == 2

StringVals == {[type |-> "string", s |-> cs] : cs \in UNION {[1..n -> TitleChars] : n \in 0..2}}

Number == [type |-> "number"]

ArrayOf(items) == [type |-> "array", items |-> items]

\* elements of contents: a value that is no array, an empty array, an array of a line
ItemVals == {Number, NoValue, ArrayOf(<<>>), ArrayOf(<<Number>>)}

TitleVals == StringVals \cup {Number, NoValue}

ContentsVals ==
  {Number, NoValue} \cup {ArrayOf(is) : is \in UNION {[1..n -> ItemVals] : n \in 0..MaxContents}}

\* objects that own any of the two properties
Objects ==
  {[type |-> "object", props |-> f] :
     f \in UNION {[ks -> TitleVals \cup ContentsVals] : ks \in SUBSET {"chapterTitle", "contents"}}}

Records ==
  {o \in Objects :
     /\ "chapterTitle" \in DOMAIN o.props => o.props["chapterTitle"] \in TitleVals
     /\ "contents" \in DOMAIN o.props => o.props["contents"] \in ContentsVals}

JsonValues == Records \cup {NoValue, Number, ArrayOf(<<>>), ArrayOf(<<Number>>)} \cup StringVals

\* a reason of the error list: the message about a property, or about the root
Reason(about, what) == [about |-> about, index |-> -1, what |-> what]

\* the message about contents[i]
SubReason(i, what) == [about |-> "contents", index |-> i, what |-> what]

\* Object.prototype.hasOwnProperty.call(obj, key)
Has(o, key) == key \in DOMAIN o.props

\* lines 52-60, with a title that is not trimmed before it is compared
titleErrsUntrimmed(o) ==
  IF ~Has(o, "chapterTitle") THEN <<Reason("chapterTitle", "missing")>>
  ELSE IF o.props["chapterTitle"].type # "string" THEN <<Reason("chapterTitle", "is not a string")>>
  ELSE IF o.props["chapterTitle"].s = <<>> THEN <<Reason("chapterTitle", "is empty")>>
  ELSE <<>>

\* lines 52-60
titleErrs(o) ==
  IF ~Has(o, "chapterTitle") THEN <<Reason("chapterTitle", "missing")>>
  ELSE IF o.props["chapterTitle"].type # "string" THEN <<Reason("chapterTitle", "is not a string")>>
  ELSE IF trim(o.props["chapterTitle"].s) = <<>> THEN <<Reason("chapterTitle", "is empty")>>
  ELSE <<>>

\* the reason for element i (counted from 0) of contents, lines 70-76
SubErr(sub, i) ==
  IF sub.type # "array" THEN <<SubReason(i, "is not an array")>>
  ELSE IF sub.items = <<>> THEN <<SubReason(i, "is an empty array")>>
  ELSE <<>>

\* a forEach that stops at the first element it reports
RECURSIVE SubErrsFirstOnly(_, _)
SubErrsFirstOnly(items, i) ==
  IF items = <<>> THEN <<>>
  ELSE IF SubErr(Head(items), i) # <<>> THEN SubErr(Head(items), i)
  ELSE SubErrsFirstOnly(Tail(items), i + 1)

\* contents.forEach of lines 70-76
RECURSIVE SubErrs(_, _)
SubErrs(items, i) ==
  IF items = <<>> THEN <<>> ELSE SubErr(Head(items), i) \o SubErrs(Tail(items), i + 1)

\* lines 62-78
contentsErrs(o) ==
  IF ~Has(o, "contents") THEN <<Reason("contents", "missing")>>
  ELSE IF o.props["contents"].type # "array" THEN <<Reason("contents", "is not an array")>>
  ELSE IF o.props["contents"].items = <<>> THEN <<Reason("contents", "is an empty array")>>
  ELSE SubErrs(o.props["contents"].items, 0)

\* lines 44-81
validateJson(o) ==
  IF o.type # "object" THEN <<Reason("root", "is not an object")>>
  ELSE titleErrs(o) \o contentsErrs(o)

\* a line of a chapter as JSON.parse reads it back: a string
Line == [type |-> "string", s |-> <<"t">>]

\* the chapter title as JSON.parse reads it back
TitleValue(t) == [type |-> "string", s |-> IF t = "" THEN <<>> ELSE <<"t">>]

\* an element of contents that always holds a line
PassValueFilled(e) == ArrayOf(<<Line>>)

\* an element of contents: pageContent of line 218, [] of line 222
PassValue(e) == ArrayOf(IF e = "tokens" THEN <<Line>> ELSE <<>>)

\* the value JSON.parse (src/unnamed/part_000 line 98) reads from the file that
\* JSON.stringify wrote for a record: {chapterTitle, contents} with one array per
\* pass (lines 288-294), {title, lines} in the catalog program (lines 902, 1038)
Parsed(rec) ==
  IF variant = "scrape"
    THEN [type |-> "object",
          props |-> [k \in {"chapterTitle", "contents"} |->
                       IF k = "chapterTitle" THEN TitleValue(rec.title)
                       ELSE ArrayOf([i \in 1..Len(rec.contents) |-> PassValue(rec.contents[i])])]]
    ELSE [type |-> "object",
          props |-> [k \in {"title", "lines"} |->
                       IF k = "title" THEN TitleValue(rec.title)
                       ELSE ArrayOf([i \in 1..Len(rec.contents) |-> Line])]]

InitValidate ==
  /\ variant = "scrape"
  /\ TIdle
  /\ XIdle
  /\ BIdle
  /\ HIdle
  /\ vpc = "parsed"
  /\ obj \in JsonValues
  /\ errs = <<>>

\* const errors = validateJson(parsed), line 105
Validate ==
  /\ vpc = "parsed"
  /\ errs' = validateJson(obj)
  /\ vpc' = "validated"
  /\ UNCHANGED <<obj, bpc, argv, todo, visited, badFiles, exitCode, tvars, xvars, hvars>>

NextValidate == Validate

SpecValidate == InitValidate /\ [][NextValidate]_vars

\* ------------------------------------------------------------ batch check
\* entries of a directory of the tree checked
MaxDirEntries == 2

\* a record file that passes and one that does not
GoodRecord ==
  [type |-> "object",
   props |-> [k \in {"chapterTitle", "contents"} |->
                IF k = "chapterTitle" THEN [type |-> "string", s |-> <<"t">>]
                ELSE ArrayOf(<<ArrayOf(<<Number>>)>>)]]

BadRecord ==
  [type |-> "object",
   props |-> [k \in {"chapterTitle", "contents"} |->
                IF k = "chapterTitle" THEN [type |-> "string", s |-> <<"t">>]
                ELSE ArrayOf(<<>>)]]

File(ext, content) == [kind |-> "file", ext |-> ext, content |-> content]

Dir(readable, entries) == [kind |-> "dir", readable |-> readable, entries |-> entries]

\* text JSON.parse throws on, and a file readFileSync throws on
NotJson == [type |-> "notjson"]
Unreadable == [type |-> "unreadable"]

\* what a file holds: a JSON value, text that is no JSON, or nothing readable
Files ==
  {File(".json", x) : x \in {GoodRecord, BadRecord, NotJson, Unreadable}}
  \cup {File(".JSON", NotJson), File(".txt", NotJson)}

\* an entry that is neither a directory nor a regular file
Link == [kind |-> "link"]

SubDirs == {Dir(r, es) : r \in BOOLEAN, es \in {<<>>} \cup {<<f>> : f \in Files}}

\* the root folder: missing or unreadable, or a directory of files, links and
\* sub-directories
Roots ==
  {Dir(r, es) : r \in BOOLEAN,
                es \in UNION {[1..n -> Files \cup SubDirs \cup {Link}] : n \in 0..MaxDirEntries}}

\* path.extname(filePath).toLowerCase()
LowerExt(ext) == IF ext = ".JSON" THEN ".json" ELSE ext

\* a check that reports success whatever was found
ExitCodeAlwaysZero(bad) == 0

\* lines 111-123
ExitCodeFor(bad) == IF bad = <<>> THEN 0 ELSE 2

\* the entries of a directory with their paths, in the order readdirSync gave them
Listed(path, entries) ==
  [i \in 1..Len(entries) |-> [path |-> Append(path, i), node |-> entries[i]]]

InitBatch ==
  /\ variant = "scrape"
  /\ TIdle
  /\ XIdle
  /\ VIdle
  /\ HIdle
  /\ bpc = "start"
  /\ argv \in Roots \cup {NoArg}
  /\ todo = <<>>
  /\ visited = <<>>
  /\ badFiles = <<>>
  /\ exitCode = -1

\* lines 6-11: the usage error, or the first call of walkDir
Start ==
  /\ bpc = "start"
  /\ IF argv = NoArg
       THEN /\ bpc' = "exit"
            /\ exitCode' = 1
            /\ UNCHANGED todo
       ELSE /\ bpc' = "walk"
            /\ todo' = <<[path |-> <<>>, node |-> argv]>>
            /\ UNCHANGED exitCode
  /\ UNCHANGED <<vpc, obj, errs, argv, visited, badFiles, tvars, xvars, hvars>>

\* walkDir on a directory, lines 16-33: its entries are handled next, in order,
\* before what follows the directory; a directory that cannot be read is logged
WalkDir ==
  /\ bpc = "walk" /\ todo # <<>>
  /\ Head(todo).node.kind = "dir"
  /\ todo' = IF Head(todo).node.readable
               THEN Listed(Head(todo).path, Head(todo).node.entries) \o Tail(todo)
               ELSE Tail(todo)
  /\ UNCHANGED <<vpc, obj, errs, bpc, argv, visited, badFiles, exitCode, tvars, xvars, hvars>>

\* an entry that is neither isDirectory() nor isFile(), lines 27-31
SkipEntry ==
  /\ bpc = "walk" /\ todo # <<>>
  /\ Head(todo).node.kind = "link"
  /\ todo' = Tail(todo)
  /\ UNCHANGED <<vpc, obj, errs, bpc, argv, visited, badFiles, exitCode, tvars, xvars, hvars>>

\* the reasons the callback finds for a file, lines 86-108: none for another
\* extension or an unreadable file
Found(file) ==
  IF LowerExt(file.ext) # ".json" THEN <<>>
  ELSE IF file.content = Unreadable THEN <<>>
  ELSE IF file.content = NotJson THEN <<Reason("root", "invalid JSON")>>
  ELSE validateJson(file.content)

\* the callback of line 85 on a regular file
Callback ==
  /\ bpc = "walk" /\ todo # <<>>
  /\ Head(todo).node.kind = "file"
  /\ visited' = Append(visited, Head(todo).path)
  /\ badFiles' = IF Found(Head(todo).node) # <<>>
                   THEN Append(badFiles, Head(todo).path)
                   ELSE badFiles
  /\ todo' = Tail(todo)
  /\ UNCHANGED <<vpc, obj, errs, bpc, argv, exitCode, tvars, xvars, hvars>>

\* lines 111-123
Exit ==
  /\ bpc = "walk" /\ todo = <<>>
  /\ exitCode' = ExitCodeFor(badFiles)
  /\ bpc' = "exit"
  /\ UNCHANGED <<vpc, obj, errs, argv, todo, visited, badFiles, tvars, xvars, hvars>>

NextBatch ==
  \/ Start
  \/ WalkDir
  \/ SkipEntry
  \/ Callback
  \/ Exit

SpecBatch == InitBatch /\ [][NextBatch]_vars

NextExtract ==
  \/ ClassifyText
  \/ ClassifyBreak
  \/ ClassifyElement
  \/ ClassifyImage
  \/ FinishContainer

SpecExtract == InitExtract /\ [][NextExtract]_vars

\* ----------------------------------------------------------- volume folder
\* the helpers that name folders and files, called on their own

\* heading texts tried are at most this long
MaxHeading == 3

\* a letter, white space, a character both sanitizers take out, the dot, and a
\* character only sanitizeName takes out
HeadingChars == {"a", " ", "?", ".", "!"}

Headings == UNION {[1..n -> HeadingChars] : n \in 0..MaxHeading}

\* [\u0000-\u001F\u007F<>:"/\\|?*] of line 328, the printable ones
FilenameBad == {"<", ">", ":", "\"", "/", "\\", "|", "?", "*"}

Letters ==
  {"a", "b", "c", "d", "e", "f", "g", "h", "i", "j", "k", "l", "m", "n", "o", "p", "q",
   "r", "s", "t", "u", "v", "w", "x", "y", "z"}

\* [\p{L}\p{N}\-_.()\[\] ] of line 645
NameAllowed == Letters \cup Digits \cup {"-", "_", ".", "(", ")", "[", "]", " "}

Untitled == <<"u", "n", "t", "i", "t", "l", "e", "d">>

UntitledVolume == Untitled \o <<"_", "v", "o", "l", "u", "m", "e">>

\* `volume_${v + 1}` for the volume counted from 1
VolumeN(i) == <<"v", "o", "l", "u", "m", "e", "_">> \o <<<<"1", "2", "3", "4", "5", "6", "7", "8", "9">>[i]>>

\* s.substring(0, n), s.slice(0, n)
Take(s, n) == IF Len(s) > n THEN SubSeq(s, 1, n) ELSE s

\* s.replace(/[bad]+/g, " "): each run of characters of bad becomes one space
RECURSIVE ReplaceRuns(_, _, _)
ReplaceRuns(s, bad, inRun) ==
  IF s = <<>> THEN <<>>
  ELSE IF Head(s) \in bad
    THEN (IF inRun THEN <<>> ELSE <<" ">>) \o ReplaceRuns(Tail(s), bad, TRUE)
    ELSE <<Head(s)>> \o ReplaceRuns(Tail(s), bad, FALSE)

\* s.replace(/\s+/g, " ")
Collapse(s) == ReplaceRuns(s, {" "}, FALSE)

\* s.replace(/^[.\s]+|[.\s]+$/g, "")
RECURSIVE StripLeft(_)
StripLeft(s) == IF s # <<>> /\ Head(s) \in {".", " "} THEN StripLeft(Tail(s)) ELSE s

RECURSIVE StripRight(_)
StripRight(s) ==
  IF s # <<>> /\ s[Len(s)] \in {".", " "} THEN StripRight(SubSeq(s, 1, Len(s) - 1)) ELSE s

\* lines 323-332
sanitizeFilename(name) ==
  IF name = <<>> THEN <<>>
  ELSE Take(trim(Collapse(ReplaceRuns(name, FilenameBad, FALSE))), 200)

\* a sanitizeName without the check of line 649
sanitizeNameUnchecked(name) ==
  IF name = <<>> THEN Untitled
  ELSE Take(SelectSeq(StripRight(StripLeft(Collapse(trim(name)))),
                      LAMBDA ch : ch \in NameAllowed), 240)

\* lines 637-651, allowChinese = true
sanitizeName(name) ==
  IF name = <<>> THEN Untitled
  ELSE LET kept == SelectSeq(StripRight(StripLeft(Collapse(trim(name)))),
                             LAMBDA ch : ch \in NameAllowed)
       IN IF kept = <<>> THEN Untitled ELSE Take(kept, 240)

\* h3.evaluate((n) => n.textContent || "").trim() || fallback, when there is an h3
HeadingOr(call, fallback) ==
  IF call.present /\ trim(call.text) # <<>> THEN trim(call.text) ELSE fallback

\* the folder name of a volume: lines 65-76 of the scrape program, lines 770-775 of
\* the catalog program
volumeFolder(call) ==
  IF call.program = "scrape"
    THEN LET rawH3 == HeadingOr(call, VolumeN(call.index))
         IN IF sanitizeFilename(rawH3) # <<>> THEN sanitizeFilename(rawH3)
            ELSE VolumeN(call.index)
    ELSE sanitizeName(HeadingOr(call, UntitledVolume))

\* a volume container with or without an h3, whose text is the heading
FolderCalls ==
  {[fn |-> "folder", program |-> p, index |-> i, present |-> b, text |-> t, now |-> <<>>] :
     p \in Variants, i \in 1..MaxVolumes, b \in BOOLEAN, t \in Headings}

\* paths tried have at most this many characters after the leading slash
MaxUrl == 3

UrlChars == {"/", "1", "2", "a", "."}

\* absolute URLs of images whose path the URL parser leaves as it is (no "." and
\* no ".." segment)
Urls ==
  {Origin \o <<"/">> \o w : w \in
     {x \in UNION {[1..n -> UrlChars] : n \in 0..MaxUrl} :
        \A k \in 1..Len(Segments(x)) : Segments(x)[k] \notin {<<".">>, <<".", ".">>}}}

\* an image of a chapter page, and the time at which its name is made
ImageCalls ==
  {[fn |-> "image", program |-> p, index |-> 0, present |-> TRUE, text |-> u, now |-> t] :
     p \in Variants, u \in Urls, t \in Timestamps}

InitHelpers ==
  /\ variant = "scrape"
  /\ TIdle
  /\ XIdle
  /\ VIdle
  /\ BIdle
  /\ hpc = "called"
  /\ arg \in FolderCalls \cup ImageCalls
  /\ ret = <<>>
  /\ WIdle

\* main names the folder of a volume
VolumeFolder ==
  /\ hpc = "called"
  /\ arg.fn = "folder"
  /\ ret' = volumeFolder(arg)
  /\ hpc' = "returned"
  /\ UNCHANGED <<arg, wvars, tvars, xvars, pvars>>

\* the file an image is saved to: lines 534-535 of the scrape program, lines
\* 966-968 of the catalog program
ImageName ==
  /\ hpc = "called"
  /\ arg.fn = "image"
  /\ ret' = IF arg.program = "scrape" THEN savePath(arg.text, arg.now)
            ELSE imageFilenameFromSrc(arg.text, arg.now)
  /\ hpc' = "returned"
  /\ UNCHANGED <<arg, wvars, tvars, xvars, pvars>>

NextHelpers ==
  \/ VolumeFolder
  \/ ImageName

SpecHelpers == InitHelpers /\ [][NextHelpers]_vars

\* ------------------------------------------------------------ image waits
\* One image of extractAContent from the readiness poll to the push of its token.
\* Time is counted in polling intervals: every iteration that does not leave its
\* loop waits one interval (lines 450, 504) and may take longer.

\* LAZY_TIMEOUT in LAZY_POLL_INTERVALs (20000 / 100 in the code)
MaxLazyPolls == 3

\* STABLE_TIMEOUT in STABLE_INTERVALs (8000 / 100 in the code)
MaxStablePolls == 4

\* const STABLE_SAMPLES = 3
STABLE_SAMPLES == 3

\* intervals an iteration can take
Durations == {1, 2}

\* st of lines 436-445; a failed evaluate gives the sample with nothing set
Sample(lazy, hasSrc, nw) == [lazy |-> lazy, hasSrc |-> hasSrc, nw |-> nw]

LazySamples ==
  {Sample(FALSE, FALSE, 0), Sample(TRUE, FALSE, 0), Sample(FALSE, TRUE, 0),
   Sample(FALSE, FALSE, 40)}

\* a poll that waits for the loaded marker only
ReadyMarkerOnly(st) == st.lazy

\* line 446
Ready(st) == st.lazy \/ st.hasSrc \/ st.nw > 0

\* rectangles, in tenths of a pixel
Rect(x, w) == [x |-> x, y |-> 0, w |-> w, h |-> IF w > 0 THEN 300 ELSE 0]

\* a failed sample, a rectangle without size, and three positions of the image:
\* the second is within the tolerance of the first and of the third, the third is
\* not within the tolerance of the first
RectSamples == {NoRect, Rect(0, 0), Rect(0, 400), Rect(6, 400), Rect(12, 400)}

Abs(n) == IF n < 0 THEN -n ELSE n

\* rect && rect.w > 0 && rect.h > 0 (lines 493, 537)
Valid(rect) == IF rect = NoRect THEN FALSE ELSE rect.w > 0 /\ rect.h > 0

\* the comparison of line 494: every difference is below 1 pixel
Agree(rect, prev) ==
  IF prev = NoRect THEN FALSE
  ELSE /\ Abs(rect.w - prev.w) < 10 /\ Abs(rect.h - prev.h) < 10
       /\ Abs(rect.x - prev.x) < 10 /\ Abs(rect.y - prev.y) < 10

InitWaits ==
  /\ variant = "scrape"
  /\ TIdle
  /\ XIdle
  /\ VIdle
  /\ BIdle
  /\ CIdle
  /\ wpc = "lazy"
  /\ lazyClock = 0
  /\ lazySeen = <<>>
  /\ lazyReady = FALSE
  /\ stableClock = 0
  /\ seen = <<>>
  /\ lastRect = NoRect
  /\ stableCount = 0
  /\ shot = NoShot
  /\ pushed = FALSE

\* one iteration of the loop of lines 432-451
LazyPoll ==
  /\ wpc = "lazy"
  /\ lazyClock < MaxLazyPolls
  /\ \E st \in LazySamples :
       /\ lazySeen' = Append(lazySeen, st)
       /\ IF Ready(st)
            THEN /\ lazyReady' = TRUE
                 /\ wpc' = "stable"
                 /\ UNCHANGED lazyClock
            ELSE /\ \E d \in Durations : lazyClock' = lazyClock + d
                 /\ UNCHANGED <<lazyReady, wpc>>
  /\ UNCHANGED <<stableClock, seen, lastRect, stableCount, shot, pushed, hpc, arg, ret,
                 tvars, xvars, pvars>>

\* the loop condition of line 432 fails: the warning of line 452, and on
LazyTimeout ==
  /\ wpc = "lazy"
  /\ lazyClock >= MaxLazyPolls
  /\ wpc' = "stable"
  /\ UNCHANGED <<lazyClock, lazySeen, lazyReady, stableClock, seen, lastRect, stableCount,
                 shot, pushed, hpc, arg, ret, tvars, xvars, pvars>>

\* a count that a zero-size or failed sample leaves as it is
CountAfterKept(rect) ==
  IF Valid(rect) THEN (IF Agree(rect, lastRect) THEN stableCount + 1 ELSE 1) ELSE stableCount

\* stableCount and lastRect after a sample, lines 493-503
CountAfter(rect) ==
  IF Valid(rect) THEN (IF Agree(rect, lastRect) THEN stableCount + 1 ELSE 1) ELSE 0

LastAfter(rect) ==
  IF Valid(rect) /\ Agree(rect, lastRect) THEN lastRect ELSE rect

\* one iteration of the loop of lines 473-505
StableSample ==
  /\ wpc = "stable"
  /\ stableClock < MaxStablePolls
  /\ \E rect \in RectSamples :
       /\ seen' = Append(seen, rect)
       /\ stableCount' = CountAfter(rect)
       /\ lastRect' = LastAfter(rect)
       /\ IF CountAfter(rect) >= STABLE_SAMPLES
            THEN /\ wpc' = "capture"
                 /\ UNCHANGED stableClock
            ELSE /\ \E d \in Durations : stableClock' = stableClock + d
                 /\ UNCHANGED wpc
  /\ UNCHANGED <<lazyClock, lazySeen, lazyReady, shot, pushed, hpc, arg, ret,
                 tvars, xvars, pvars>>

\* the loop condition of line 473 fails
StableTimeout ==
  /\ wpc = "stable"
  /\ stableClock >= MaxStablePolls
  /\ wpc' = "capture"
  /\ UNCHANGED <<lazyClock, lazySeen, lazyReady, stableClock, seen, lastRect, stableCount,
                 shot, pushed, hpc, arg, ret, tvars, xvars, pvars>>

\* lines 507-550: the single read when lastRect is null, the screenshot when the
\* file does not exist and the rectangle is valid, and the push of the token
Capture ==
  /\ wpc = "capture"
  /\ \E fresh \in RectSamples, exists \in BOOLEAN, shotOk \in BOOLEAN :
       /\ lastRect' = IF lastRect = NoRect THEN fresh ELSE lastRect
       /\ shot' = [how |-> IF exists THEN "exists"
                           ELSE IF ~Valid(lastRect') THEN "norect"
                           ELSE IF shotOk THEN "taken" ELSE "threw",
                   reread |-> lastRect = NoRect]
  /\ pushed' = TRUE
  /\ wpc' = "done"
  /\ UNCHANGED <<lazyClock, lazySeen, lazyReady, stableClock, seen, stableCount, hpc, arg,
                 ret, tvars, xvars, pvars>>

NextWaits ==
  \/ LazyPoll
  \/ LazyTimeout
  \/ StableSample
  \/ StableTimeout
  \/ Capture

SpecWaits == InitWaits /\ [][NextWaits]_vars

\* each await of the waits returns: the loops are left and the image is finished
SpecWaitsFair == SpecWaits /\ WF_vars(NextWaits)

Next ==
  \/ OpenCatalog
  \/ OpenCatalogFail
  \/ StartVolume
  \/ SkipVolume
  \/ EndVolumes
  \/ NextVolume
  \/ CatalogBreak
  \/ CatalogIndexCrash
  \/ ResumeSkip
  \/ MissingLink
  \/ OpenChapter
  \/ OpenChapterFail
  \/ ExtractPass
  \/ FollowOk
  \/ FollowFail
  \/ FootlinkError
  \/ EndOfChain
  \/ WriteRecord
  \/ Finish
  \/ Interrupt
  \/ Rerun

Spec == Init /\ [][Next]_vars

\* ------------------------------------------------------------ properties

Walking == pc \in {"extract", "checknext", "write"}

\* the step main takes from a chapter whose record exists (the process not being
\* killed there) does nothing but move on
SkipsOnly ==
  /\ c' = c + 1
  /\ last'.ops = {}
  /\ UNCHANGED <<v, pc, disk, writes, openPages, walker, nextChapterUrl>>

\* C1 (as amended): in the scrape program, a chapter whose record file exists when
\* it is reached is left with no navigation, no extraction and no write, and main
\* goes on to the next chapter; no chapter is walked while its record exists; and
\* a run started when every linked chapter had a record writes no record
C1_ResumeSkip ==
  /\ [][(variant = "scrape" /\ AtChapter /\ Existed /\ pc' # "killed") => SkipsOnly]_vars
  /\ [](variant = "scrape" /\ Walking => ~Existed)
  /\ [](variant = "scrape" /\ complete => writes = 0)

\* C1 as stated: the same of both programs
C1_AsStated ==
  /\ [][(AtChapter /\ Existed /\ pc' # "killed") => SkipsOnly]_vars
  /\ [](complete => writes = 0)

\* the second scrape run has skipped both chapters of a volume recorded by the first
C1_Witness ==
  /\ variant = "scrape" /\ run = 2 /\ complete
  /\ last.act = "ResumeSkip" /\ pc = "chapter"
  /\ c = 3 /\ site[v] = <<"ok", "ok">>
  /\ disk[<<v, 1>>] = "full" /\ disk[<<v, 2>>] = "full"
  /\ writes = 0

\* pages of the chain the passes extracted, in the order of the passes
PagesOf(ps) == [i \in 1..Len(ps) |-> ps[i].page]

\* C2: a chapter whose chain has n pages, each followed when its sentinel is read:
\* the page loop makes a pass per page, in chain order, never more than n, and is
\* left after the pass of page n
C2_PaginationTermination ==
  /\ (pc \in {"extract", "checknext"} /\ followFails = 0) =>
       /\ pageNo \in 1..chain
       /\ Len(passes) = (IF pc = "extract" THEN pageNo - 1 ELSE pageNo)
       /\ PagesOf(passes) = [i \in 1..Len(passes) |-> i]
  /\ (pc = "write" /\ followFails = 0 /\ last.act # "FootlinkError") =>
       PagesOf(passes) = [i \in 1..chain |-> i]

\* a chain of several pages has been walked to its end
C2_Witness ==
  /\ pc = "write" /\ followFails = 0 /\ last.act = "EndOfChain"
  /\ chain >= 2 /\ Len(passes) = chain


\* the children [text "a", br, img .../12.jpg, text "b"]
Example ==
  <<[kind |-> "text", text |-> <<"a">>, src |-> NoSrc],
    [kind |-> "br", text |-> <<>>, src |-> NoSrc],
    [kind |-> "img", text |-> <<>>, src |-> U12],
    [kind |-> "text", text |-> <<"b">>, src |-> NoSrc]>>

\* tokens as (kind, value), an image reference by the id its file is named after
Shape(r) ==
  [i \in 1..Len(r) |-> <<r[i].kind, IF r[i].kind = "image" THEN Stem(r[i].val) ELSE r[i].val>>]

\* tokens come in the order of the children they were made from
InDocumentOrder ==
  \A i, j \in 1..Len(result) :
    i < j => \A a \in result[i].from : \A b \in result[j].from : a < b

\* child q carries text the program emits
CarriesText(q) ==
  IF variant = "scrape"
    THEN \/ nodes[q].kind \in {"text", "p"} /\ trim(nodes[q].text) # <<>>
         \/ nodes[q].kind = "center"
    ELSE nodes[q].kind \in {"text", "p", "center", "other"} /\ nodes[q].text # <<>>

\* text of a child before an image is in a line before the image's reference
TextBeforeImage ==
  \A k \in 1..Len(result) :
    result[k].kind = "image" =>
      \A p \in result[k].from : \A q \in 1..(p - 1) :
        CarriesText(q) =>
          \E i \in 1..(k - 1) : q \in result[i].from /\ result[i].kind # "image"

\* C3 (as amended): tokens keep the order of the children that produced them and
\* text before an image is emitted before the image's reference; for the example
\* children the catalog program gives [line "a", reference to 12.jpg, line "b"]
\* and the scrape program, whose br is an empty line of its own, gives
\* [line "a", line "", reference 12, line "b"]
C3_TokenOrder ==
  /\ InDocumentOrder
  /\ TextBeforeImage
  /\ (xpc = "end" /\ nodes = Example) =>
       IF variant = "catalog"
         THEN /\ Shape(result) = <<<<"text", <<"a">>>>, <<"image", <<"1", "2">>>>,
                                   <<"text", <<"b">>>>>>
              /\ result[2].val = <<"1", "2", ".", "j", "p", "g">>
         ELSE Shape(result) = <<<<"text", <<"a">>>>, <<"text", <<>>>>,
                                <<"image", <<"1", "2">>>>, <<"text", <<"b">>>>>>

\* C3 as stated: the example gives exactly three tokens in both programs
C3_AsStated ==
  /\ InDocumentOrder
  /\ TextBeforeImage
  /\ (xpc = "end" /\ nodes = Example) =>
       Shape(result) = <<<<"text", <<"a">>>>, <<"image", <<"1", "2">>>>,
                         <<"text", <<"b">>>>>>

\* the example container has been classified by the catalog program
C3_Witness ==
  /\ variant = "catalog" /\ xpc = "end" /\ nodes = Example
  /\ Len(result) = 3 /\ result[2].kind = "image" /\ result[2].from = {3}

\* the last step handled an image that has a source
ImageDone == xlast.kind = "img" /\ xlast.name # <<>> /\ nodes[xlast.at].src # NoSrc

\* the last token is the reference of the image the last step handled
ReferenceLast ==
  /\ result # <<>>
  /\ result[Len(result)].kind = "image"
  /\ result[Len(result)].from = {xlast.at}
  /\ result[Len(result)].val \in {xlast.name, Stem(xlast.name)}

\* C4 (as amended): in the scrape program, when the file of the derived id exists
\* as an image is processed, no capture is attempted, the file is left as it was
\* and the reference is still emitted
C4_AssetSkip ==
  (variant = "scrape" /\ xlast.kind = "img" /\ xlast.existed) =>
    /\ attempts = <<>>
    /\ xlast.name \in DOMAIN files
    /\ files[xlast.name] = xlast.prior
    /\ ReferenceLast

\* C4 as stated: the same of both programs
C4_AsStated ==
  (xlast.kind = "img" /\ xlast.existed) =>
    /\ attempts = <<>>
    /\ xlast.name \in DOMAIN files
    /\ files[xlast.name] = xlast.prior
    /\ ReferenceLast

\* the scrape program met a second image whose file the first had saved
C4_Witness ==
  /\ variant = "scrape" /\ xlast.kind = "img" /\ xlast.existed
  /\ xlast.at = 2 /\ nodes[1].src = U12 /\ nodes[2].src = U312
  /\ files[xlast.name] = U12

\* the last digit run of the last path segment of a URL, <<>> when it has none
TrailingRun(url) ==
  LET parts == Segments(Pathname(url))
      runs == IF parts = <<>> THEN <<>> ELSE DigitGroups(parts[Len(parts)])
  IN IF runs = <<>> THEN <<>> ELSE runs[Len(runs)]

\* indices of the references of images that have a source
Refs == {i \in 1..Len(result) : result[i].kind = "image" /\ \A p \in result[i].from :
                                                                nodes[p].src # NoSrc}

SrcOf(i) == nodes[CHOOSE p \in result[i].from : TRUE].src

\* references i and j come from URLs with the same trailing digit run
SameRun(i, j) ==
  /\ TrailingRun(Resolve(SrcOf(i))) # <<>>
  /\ TrailingRun(Resolve(SrcOf(i))) = TrailingRun(Resolve(SrcOf(j)))

\* the file a reference of the scrape program stands for
PngOf(i) == result[i].val \o Png

\* C5 (as amended): in the scrape program two image references whose resolved
\* URLs have the same trailing digit run in their last path segment carry the same
\* id and map to one file name, so at most one asset file exists for them, and
\* that file exists once a capture of it succeeded
C5_AssetDedup ==
  variant = "scrape" =>
    /\ \A i, j \in Refs :
         SameRun(i, j) =>
           /\ result[i].val = result[j].val
           /\ result[i].val = TrailingRun(Resolve(SrcOf(i)))
           /\ Cardinality({PngOf(i), PngOf(j)}) = 1
    /\ (ImageDone /\ attempts # <<>> /\ attempts[Len(attempts)].ok) =>
         xlast.name \in DOMAIN files
    /\ \A n \in DOMAIN files :
         \E i \in 1..Len(result) : result[i].kind = "image" /\ PngOf(i) = n

\* C5 as stated: once the container is done, the references of both programs that
\* share a trailing digit run stand for one file name and that one file exists
C5_AsStated ==
  xpc = "end" =>
    \A i, j \in Refs :
      SameRun(i, j) =>
        LET names == {IF variant = "scrape" THEN PngOf(k) ELSE result[k].val : k \in {i, j}}
        IN Cardinality(names) = 1 /\ names \subseteq DOMAIN files

\* two images with the sources /i/12.jpg and /k3/12.jpg gave one file 12.png
C5_Witness ==
  /\ variant = "scrape" /\ xpc = "end" /\ Len(nodes) = 2
  /\ nodes[1].src = U12 /\ nodes[2].src = U312 /\ nodes[1].kind = "img" /\ nodes[2].kind = "img"
  /\ Refs = {1, 2} /\ result[1].val = result[2].val
  /\ DOMAIN files = {<<"1", "2", ".", "p", "n", "g">>}

Strategies(as) == [i \in 1..Len(as) |-> as[i].s]

\* an image with a source is about to be classified
AtImage == xpc = "nodes" /\ pos < Len(nodes) /\ Cur.kind = "img" /\ Cur.src # NoSrc

\* the reference of the image goes right after the tokens already emitted and the
\* text pending before it, whatever the capture does
PlacesReference ==
  /\ Len(result') = Len(result) + (IF buffer # <<>> THEN 1 ELSE 0) + 1
  /\ result'[Len(result')].kind = "image"
  /\ result'[Len(result')].from = {pos + 1}
  /\ SubSeq(result', 1, Len(result)) = result

\* C6 (as amended): the scrape program has one capture strategy, the element
\* snapshot, tried only when the file is absent (and the sampled rectangle valid),
\* with no fallback; the catalog program tries the in-page fetch first and the
\* context request if and only if the fetch failed, and has no snapshot; in both
\* the reference is placed at the same position whatever the captures gave
C6_CaptureOrder ==
  /\ [](ImageDone =>
          IF variant = "scrape"
            THEN /\ Strategies(attempts) \in {<<>>, <<"snapshot">>}
                 /\ attempts # <<>> => ~xlast.existed
            ELSE /\ Strategies(attempts) \in {<<"fetch">>, <<"fetch", "request">>}
                 /\ Len(attempts) = 2 <=> ~attempts[1].ok)
  /\ [][AtImage => PlacesReference]_vars

AllThree == <<"snapshot", "fetch", "request">>

\* C6 as stated: the strategies tried are the first ones of snapshot, fetch, request,
\* each tried exactly when the ones before it failed
C6_AsStated ==
  ImageDone =>
    /\ attempts # <<>>
    /\ Strategies(attempts) = SubSeq(AllThree, 1, Len(attempts))
    /\ \A i \in 1..(Len(attempts) - 1) : ~attempts[i].ok
    /\ ~attempts[Len(attempts)].ok => Len(attempts) = 3

\* the catalog program fell back to the context request, which succeeded
C6_Witness ==
  /\ variant = "catalog" /\ ImageDone
  /\ attempts = <<[s |-> "fetch", ok |-> FALSE], [s |-> "request", ok |-> TRUE]>>
  /\ ReferenceLast /\ xlast.name \in DOMAIN files

\* every strategy that was tried failed
AllFailed == attempts # <<>> /\ \A i \in 1..Len(attempts) : ~attempts[i].ok

\* the id derived for an image of each program
DerivedRef(src) ==
  IF variant = "scrape" THEN ScrapeId[src] ELSE CatalogName[src, NoId]

\* C7: when every capture tried for an image with a source failed, one reference
\* carrying the derived id is appended for it, no file is created or changed, and
\* the children after it are still classified
C7_DanglingReference ==
  (ImageDone /\ AllFailed) =>
    /\ ReferenceLast
    /\ result[Len(result)].val = DerivedRef(nodes[xlast.at].src)
    /\ Cardinality({i \in 1..Len(result) : xlast.at \in result[i].from}) = 1
    /\ IF xlast.existed
         THEN xlast.name \in DOMAIN files /\ files[xlast.name] = xlast.prior
         ELSE xlast.name \notin DOMAIN files
    /\ pos = xlast.at
    /\ pos < Len(nodes) => xpc = "nodes"

\* a first image whose captures all failed, with a child still to classify
C7_Witness ==
  /\ ImageDone /\ AllFailed /\ ReferenceLast
  /\ xlast.at = 1 /\ Len(nodes) >= 2 /\ xpc = "nodes"
  /\ files = NoFiles

\* the last step found that the chapter entry it reached has no usable link
LinkMissing == last.act \in {"noanchor", "nohref"}

\* the chapter entry the last step left behind
Left == <<v, c - 1>>

\* the record {title, lines: []} of the chapter entry the last step left behind
EmptyFor(path) == [path |-> path, title |-> "T", contents |-> <<>>]

C9_LoadFailure ==
  /\ (last.act = "OpenChapterFail" /\ variant = "catalog" /\ "abort" \notin last.ops) =>
       /\ pc = "chapter"
       /\ last.rec = EmptyFor(Left)
       /\ disk[Left] = "empty"
       /\ writes >= 1
       /\ openPages = 0
  /\ (last.act = "OpenChapterFail" /\ variant = "catalog" /\ "abort" \in last.ops) =>
       pc = "crashed"
  /\ (last.act = "OpenChapterFail" /\ variant = "scrape") =>
       /\ pc = "chapter"
       /\ last.ops = {"nav"} /\ last.rec = NoRec
       /\ disk[Left] = "none"
       /\ openPages >= 1
  /\ last.act = "Fallback" =>
       /\ variant = "scrape" /\ pc = "extract"
       /\ nextChapterUrl # NoUrl
       /\ pageNo = 1 /\ passes = <<>>
       /\ disk[<<v, c>>] = "none"

\* C9 as stated: the chapter that failed to load has a record without tokens and
\* main goes on with the next entry
C9_AsStated ==
  last.act \in {"OpenChapterFail", "Fallback"} =>
    /\ pc = "chapter"
    /\ disk[Left] = "empty"
    /\ last.rec = EmptyFor(Left)

\* the catalog program recorded a first chapter that failed to load
C9_Witness ==
  /\ variant = "catalog" /\ last.act = "OpenChapterFail" /\ pc = "chapter"
  /\ c = 2 /\ disk[<<v, 1>>] = "empty" /\ writes = 1 /\ run = 1

\* the steps of the catalog program that throw out of main
CatalogThrows ==
  {"CatalogIndexCrash", "noanchor", "nohref", "OpenChapterFail", "ExtractPass",
   "FootlinkError"}

RECURSIVE EntriesFrom(_)
EntriesFrom(i) ==
  IF i > Len(site) THEN <<>>
  ELSE [j \in 1..Len(site[i]) |-> <<i, j>>] \o EntriesFrom(i + 1)

\* entry a comes before entry b in the catalog
Before(a, b) == a[1] < b[1] \/ (a[1] = b[1] /\ a[2] < b[2])

\* C11: in a run where the catalog loads and nothing fails, main is done with every
\* chapter entry of every volume exactly once, volumes in document order and
\* chapters in listed order, with at most one chapter page open, and no chapter
\* index outside a volume's chapter list is processed
C11_CoverageAndOrder ==
  /\ \A a, b \in 1..Len(handled) : a < b => Before(handled[a], handled[b])
  /\ \A a \in 1..Len(handled) :
       handled[a][1] \in 1..Len(site) /\ handled[a][2] \in 1..Len(site[handled[a][1]])
  /\ last.act # "CatalogIndexCrash"
  /\ clean => openPages <= 1
  /\ (pc = "done" /\ clean) => handled = EntriesFrom(1)

\* the value has the property and it is of the type
HasTyped(o, key, type) == Has(o, key) /\ o.props[key].type = type

\* a string with a character that is no white space
NonBlank(str) == \E k \in 1..Len(str) : str[k] # " "

\* a non-null, non-array object with a chapterTitle that is a string, non-empty
\* after trimming, and a contents that is a non-empty array of non-empty arrays
Conforms(o) ==
  /\ o.type = "object"
  /\ HasTyped(o, "chapterTitle", "string") /\ NonBlank(o.props["chapterTitle"].s)
  /\ HasTyped(o, "contents", "array") /\ o.props["contents"].items # <<>>
  /\ \A i \in 1..Len(o.props["contents"].items) :
       /\ o.props["contents"].items[i].type = "array"
       /\ o.props["contents"].items[i].items # <<>>

\* C12: validateJson returns no reason exactly for the values that conform
C12_ValidatorAcceptance ==
  vpc = "validated" => (errs = <<>> <=> Conforms(obj))

\* a record whose title has white space around it and two content entries is accepted
C12_Witness ==
  /\ vpc = "validated" /\ errs = <<>> /\ Conforms(obj)
  /\ obj.props["chapterTitle"].s = <<" ", "t">>
  /\ Len(obj.props["contents"].items) = 2

\* how often reason r is reported
Times(r) == Cardinality({k \in 1..Len(errs) : errs[k] = r})

TitleReasons ==
  {Reason("chapterTitle", "missing"), Reason("chapterTitle", "is not a string"), Reason("chapterTitle", "is empty")}

ContentsReasons ==
  {Reason("contents", "missing"), Reason("contents", "is not an array"), Reason("contents", "is an empty array")}

\* the reasons a field of the record calls for
TitleCalls(o) ==
  IF ~Has(o, "chapterTitle") THEN {Reason("chapterTitle", "missing")}
  ELSE IF ~HasTyped(o, "chapterTitle", "string") THEN {Reason("chapterTitle", "is not a string")}
  ELSE IF ~NonBlank(o.props["chapterTitle"].s) THEN {Reason("chapterTitle", "is empty")}
  ELSE {}

ContentsCalls(o) ==
  IF ~Has(o, "contents") THEN {Reason("contents", "missing")}
  ELSE IF ~HasTyped(o, "contents", "array") THEN {Reason("contents", "is not an array")}
  ELSE IF o.props["contents"].items = <<>> THEN {Reason("contents", "is an empty array")}
  ELSE {SubReason(i - 1, "is an empty array") :
          i \in {k \in 1..Len(o.props["contents"].items) :
                   o.props["contents"].items[k] = ArrayOf(<<>>)}}
       \cup {SubReason(i - 1, "is not an array") :
          i \in {k \in 1..Len(o.props["contents"].items) :
                   o.props["contents"].items[k].type # "array"}}

\* C13: for an object root the reasons are exactly those its title and its contents
\* call for, each once, whatever the other field is: an empty title gives the
\* empty-title reason, an empty contents the empty-contents reason, and every
\* empty element of contents a reason naming its index
C13_ItemizedReasons ==
  (vpc = "validated" /\ obj.type = "object") =>
    /\ {errs[k] : k \in 1..Len(errs)} = TitleCalls(obj) \cup ContentsCalls(obj)
    /\ \A k \in 1..Len(errs) : Times(errs[k]) = 1
    /\ Cardinality({k \in 1..Len(errs) : errs[k] \in TitleReasons}) <= 1
    /\ Cardinality({k \in 1..Len(errs) : errs[k] \in ContentsReasons}) <= 1

\* a blank title and two empty content entries give three reasons
C13_Witness ==
  /\ vpc = "validated" /\ obj.type = "object"
  /\ errs = <<Reason("chapterTitle", "is empty"), SubReason(0, "is an empty array"),
              SubReason(1, "is an empty array")>>

\* the regular files under a node with their paths: all of them (through), or
\* only those no unreadable directory hides
RECURSIVE FilesUnder(_, _, _)
FilesUnder(path, node, through) ==
  IF node.kind = "file" THEN {[path |-> path, node |-> node]}
  ELSE IF node.kind = "dir" /\ (through \/ node.readable)
    THEN UNION {FilesUnder(Append(path, i), node.entries[i], through) :
                  i \in 1..Len(node.entries)}
    ELSE {}

\* a .json file (in any letter case) that is no JSON or no conforming record
NonConforming(file) ==
  /\ file.ext \in {".json", ".JSON"}
  /\ \/ file.content = NotJson
     \/ file.content.type \in {"object", "array", "string", "number", "null"}
        /\ ~Conforms(file.content)

PathsOf(fs) == {f.path : f \in fs}

Listing(seq) == {seq[k] : k \in 1..Len(seq)}

\* the outcome of a check of the files fs
Outcome(fs) ==
  /\ Listing(visited) = PathsOf(fs)
  /\ Len(visited) = Cardinality(PathsOf(fs))
  /\ Listing(badFiles) = PathsOf({f \in fs : NonConforming(f.node)})
  /\ Len(badFiles) = Cardinality(Listing(badFiles))
  /\ exitCode = 0 <=> \A f \in fs : ~NonConforming(f.node)
  /\ exitCode = 2 <=> \E f \in fs : NonConforming(f.node)

\* C14 (as amended): the checker calls back for every regular file in every
\* directory it can read under the root, recursively (a directory it cannot read,
\* the root included, is logged and passed over with all it holds; entries that are
\* neither directories nor regular files are ignored); it reports every such .json
\* file that fails parsing or validation; it exits 0 when none of them is
\* non-conforming, 2 when one is, and 1 with no root argument, without visiting
C14_BatchOutcome ==
  /\ bpc # "exit" => exitCode = -1
  /\ (bpc = "exit" /\ argv = NoArg) =>
       exitCode = 1 /\ visited = <<>> /\ badFiles = <<>>
  /\ (bpc = "exit" /\ argv # NoArg) => Outcome(FilesUnder(<<>>, argv, FALSE))

\* C14 as stated: the same of every file under the root
C14_AsStated ==
  /\ (bpc = "exit" /\ argv = NoArg) => exitCode = 1
  /\ (bpc = "exit" /\ argv # NoArg) => Outcome(FilesUnder(<<>>, argv, TRUE))

\* a bad record found in a sub-directory, after a file of the root
C14_Witness ==
  /\ bpc = "exit" /\ exitCode = 2
  /\ badFiles = <<<<2, 1>>>> /\ visited = <<<<1>>, <<2, 1>>>>
  /\ argv.entries[2].entries[1].content = BadRecord

\* the last step stored a record file
Wrote == last.rec # NoRec /\ last.ops \cap {"failed", "abort"} = {}

\* the reasons validateJson gives for the stored record
ReasonsOf(rec) ==
  {validateJson(Parsed(rec))[k] : k \in 1..Len(validateJson(Parsed(rec)))}

\* C15: a record the scrape program writes passes validateJson exactly when the
\* chapter title was read and is not empty and every pass of the page loop yielded
\* at least one token; a missing title gives chapterTitle "" and a pass without
\* container or with an extraction error gives an empty element of contents, which
\* validateJson reports. A record of the catalog program has the properties title
\* and lines and never passes.
C15_RecordConformance ==
  Wrote =>
    /\ validateJson(Parsed(last.rec)) = <<>>
          <=> /\ variant = "scrape"
              /\ last.rec.title # ""
              /\ \A i \in 1..Len(last.rec.contents) : last.rec.contents[i] = "tokens"
    /\ variant = "scrape" /\ last.rec.title = ""
          => Reason("chapterTitle", "is empty") \in ReasonsOf(last.rec)
    /\ variant = "scrape"
          => \A i \in 1..Len(last.rec.contents) :
               last.rec.contents[i] = "empty"
                 <=> SubReason(i - 1, "is an empty array") \in ReasonsOf(last.rec)
    /\ variant = "catalog"
          => validateJson(Parsed(last.rec))
               = <<Reason("chapterTitle", "missing"), Reason("contents", "missing")>>

\* C15 as stated: every record written passes validateJson
C15_AsStated == Wrote => validateJson(Parsed(last.rec)) = <<>>

\* a two-page chapter of the scrape program is stored with its title and both pages
C15_Witness ==
  /\ Wrote /\ variant = "scrape" /\ last.act = "WriteRecord"
  /\ last.rec.title = "T" /\ last.rec.contents = <<"tokens", "tokens">>
  /\ validateJson(Parsed(last.rec)) = <<>>

\* C16: no record file on disk is a partially written file, and the resume check
\* never skips a chapter on the basis of one
C16_AllOrNothing ==
  /\ \A p \in Paths : disk[p] # "partial"
  /\ last.act = "ResumeSkip" => disk[<<v, c - 1>>] # "partial"

\* the step is a write of a chapter record that failed
WriteFailed == "write" \in last'.ops /\ last'.ops \cap {"failed", "abort"} # {}

\* C17: a failed write of a chapter record, full or empty, does not end the run:
\* main goes on to the next chapter entry and no record file changes
C17_PersistenceContainment ==
  [][WriteFailed => /\ pc' = "chapter" /\ c' = c + 1
                    /\ "abort" \notin last'.ops
                    /\ disk' = disk]_vars

\* C18: when the next-page sentinel was found and following it failed, the page
\* loop ends with no other extraction pass, and no page of a chapter is extracted
\* twice
C18_FailedFollowEnds ==
  /\ last.act = "FollowFail" => pc = "write"
  /\ \A i, j \in 1..Len(passes) : i # j => PagesOf(passes)[i] # PagesOf(passes)[j]

\* the heading is there and every character of it is taken out by the sanitizer
OnlyRemoved(call) ==
  /\ call.present /\ call.text # <<>>
  /\ \A k \in 1..Len(call.text) :
       IF call.program = "scrape" THEN call.text[k] \in FilenameBad
       ELSE call.text[k] \notin NameAllowed

\* the heading is missing, empty or white space only
NoHeading(call) == ~call.present \/ trim(call.text) = <<>>

\* C19: the folder key of a volume is never the empty string: with a missing,
\* empty or blank heading it is the placeholder (volume_N in the scrape program,
\* untitled_volume in the catalog program), and with a heading made only of
\* characters the sanitizer takes out it is the placeholder too (volume_N,
\* untitled)
C19_FolderKeyNeverEmpty ==
  (hpc = "returned" /\ arg.fn = "folder") =>
    /\ ret # <<>>
    /\ NoHeading(arg) =>
         ret = (IF arg.program = "scrape" THEN VolumeN(arg.index) ELSE UntitledVolume)
    /\ OnlyRemoved(arg) =>
         ret = (IF arg.program = "scrape" THEN VolumeN(arg.index) ELSE Untitled)

\* the catalog program named the folder of a volume whose heading is "?" untitled
C19_Witness ==
  /\ hpc = "returned" /\ arg.fn = "folder" /\ arg.program = "catalog"
  /\ arg.present /\ arg.text = <<"?">>
  /\ ret = Untitled

\* the last segment of the path of a URL, empty when the path has no segment
LastSegment(url) ==
  IF Segments(Pathname(url)) = <<>> THEN <<>>
  ELSE Segments(Pathname(url))[Len(Segments(Pathname(url)))]

\* the digits of a string, in order
DigitsOf(str) == SelectSeq(str, LAMBDA ch : ch \in Digits)

\* a helper returned the file name of an image
Named == hpc = "returned" /\ arg.fn = "image"

\* the asset id: the file name without its extension
AssetId ==
  SubSeq(ret, 1, Len(ret) - (IF arg.program = "scrape" THEN Len(Png)
                              ELSE Len(getExtFromUrl(arg.text))))

\* str ends with the digits id, and no digit stands before them
TrailingDigits(str, id) ==
  \E k \in 1..Len(str) :
    /\ SubSeq(str, k, Len(str)) = id
    /\ k > 1 => str[k - 1] \notin Digits

\* C20 (as amended): the asset id depends on the URL only whenever the part of the
\* URL the program looks at has a digit.  Scrape program: the id is the last
\* digit group of the last path segment (earlier groups of the segment and other
\* segments are ignored), and the time when that segment has no digit.  Catalog
\* program: the id is every digit of the whole path, in order, and the time when
\* the path has no digit.  When only the last segment has digits and they form
\* one group, both give the digits of that segment
C20_AssetId ==
  Named =>
    /\ (arg.program = "scrape" /\ DigitsOf(LastSegment(arg.text)) # <<>>) =>
         /\ AssetId # <<>> /\ DigitsOf(AssetId) = AssetId
         /\ \E k \in 1..Len(LastSegment(arg.text)) :
              TrailingDigits(SubSeq(LastSegment(arg.text), 1, k), AssetId)
              /\ DigitsOf(SubSeq(LastSegment(arg.text), k + 1, Len(LastSegment(arg.text)))) = <<>>
    /\ (arg.program = "scrape" /\ DigitsOf(LastSegment(arg.text)) = <<>>) => AssetId = arg.now
    /\ (arg.program = "catalog" /\ DigitsOf(Pathname(arg.text)) # <<>>) =>
         AssetId = DigitsOf(Pathname(arg.text))
    /\ (arg.program = "catalog" /\ DigitsOf(Pathname(arg.text)) = <<>>) => AssetId = arg.now
    /\ (/\ Len(DigitGroups(LastSegment(arg.text))) = 1
        /\ DigitsOf(Pathname(arg.text)) = DigitsOf(LastSegment(arg.text))) =>
         AssetId = DigitsOf(LastSegment(arg.text))

\* C20 as stated: the id is every digit of the last path segment, and the time
\* only when that segment has no digit
C20_AsStated ==
  Named =>
    /\ DigitsOf(LastSegment(arg.text)) # <<>> => AssetId = DigitsOf(LastSegment(arg.text))
    /\ DigitsOf(LastSegment(arg.text)) = <<>> => AssetId = arg.now

\* the scrape program named the image /1a2 by the last digit group of the segment
C20_Witness ==
  /\ Named /\ arg.program = "scrape"
  /\ arg.text = Origin \o <<"/", "1", "a", "2">>
  /\ ret = <<"2">> \o Png

\* an empty text line of the output
EmptyLine(tok) == tok.kind = "text" /\ tok.val = <<>>

\* the token the last step appended
Newest == result[Len(result)]

\* C21 (as amended): text nodes, paragraphs and other elements never give an empty
\* line; empty lines come from line-breaks only.  In the scrape program every
\* line-break gives an empty line.  In the catalog program a line-break gives the
\* pending buffer as a line, which is empty exactly when no text is pending (a
\* line-break first, after another line-break or directly after an image)
C21_EmptyLines ==
  /\ \A i \in 1..Len(result) :
       EmptyLine(result[i]) => \E k \in result[i].from : nodes[k].kind = "br"
  /\ xlast.kind = "br" =>
       /\ result # <<>>
       /\ Newest.kind = "text" /\ xlast.at \in Newest.from
       /\ EmptyLine(Newest) <=> (variant = "scrape" \/ Newest.from = {xlast.at})

\* C21 as stated: no empty text line is ever in the output
C21_AsStated == \A i \in 1..Len(result) : ~EmptyLine(result[i])

\* the catalog program met a line-break directly after an image and gave an empty
\* line
C21_Witness ==
  /\ variant = "catalog" /\ xlast.kind = "br" /\ xlast.at = 2
  /\ nodes[1].kind = "img" /\ nodes[1].src # NoSrc
  /\ Len(result) = 2 /\ result[1].kind = "image" /\ EmptyLine(result[2])

\* the last step handled an image from which no source can be read
SourceLess == xlast.kind = "img" /\ nodes[xlast.at].src = NoSrc

\* tokens that come from the child at position k
TokensOf(k) == {i \in 1..Len(result) : k \in result[i].from}

\* C22 (as amended): an image without a source never ends the classification.
\* The catalog program skips it: no token, no download.  The scrape program
\* names it by the time, takes the element screenshot when the sampled rectangle
\* is valid and emits the reference token
C22_SourceLessImage ==
  SourceLess =>
    /\ pos = xlast.at /\ xpc \in {"nodes", "end"}
    /\ variant = "catalog" =>
         /\ TokensOf(xlast.at) = {}
         /\ attempts = <<>>
         /\ xlast.name = <<>>
    /\ variant = "scrape" =>
         /\ TokensOf(xlast.at) = {Len(result)}
         /\ Newest.kind = "image" /\ Newest.val \in Timestamps
         /\ xlast.name = Newest.val \o Png
         /\ \A i \in 1..Len(attempts) : attempts[i].s = "snapshot"
         /\ attempts # <<>> /\ attempts[1].ok => xlast.name \in DOMAIN files

\* C22 as stated: no token and no capture for an image without a source
C22_AsStated == SourceLess => TokensOf(xlast.at) = {} /\ attempts = <<>>

\* the catalog program skipped an image without a source and went on to the text
\* after it
C22_Witness ==
  /\ variant = "catalog" /\ xpc = "end" /\ Len(nodes) = 2
  /\ nodes[1].kind = "img" /\ nodes[1].src = NoSrc /\ nodes[2].kind = "text"
  /\ Len(result) = 1 /\ result[1].kind = "text" /\ result[1].from = {2}
  /\ files = NoFiles

\* t stands in s as it is
Contains(s, t) == \E i \in 0..(Len(s) - Len(t)) : SubSeq(s, i + 1, i + Len(t)) = t

\* element children that are no line-break, image or centered block
Inline == {k \in 1..Len(nodes) : nodes[k].kind \in {"p", "other"}}

\* the text of child k is in a text line of the output
Emitted(k) ==
  \E i \in TokensOf(k) : result[i].kind = "text" /\ Contains(result[i].val, nodes[k].text)

\* C23 (as amended): in the catalog program the text of every element child that
\* is no line-break and no image is appended to the buffer and is in the emitted
\* text.  In the scrape program a paragraph gives its trimmed text as a line of
\* its own, and the text of any other element is dropped
C23_OtherElements ==
  /\ (variant = "catalog" /\ xlast.kind \in {"p", "other"}) =>
       /\ xlast.at \in bufFrom
       /\ Len(buffer) >= Len(nodes[xlast.at].text)
       /\ SubSeq(buffer, Len(buffer) - Len(nodes[xlast.at].text) + 1, Len(buffer))
            = nodes[xlast.at].text
  /\ (variant = "catalog" /\ xpc = "end") => \A k \in Inline : Emitted(k)
  /\ (variant = "scrape" /\ xpc = "end") =>
       \A k \in Inline :
         IF nodes[k].kind = "p"
           THEN \E i \in TokensOf(k) :
                  result[i] = Token("text", trim(nodes[k].text), <<>>, {k})
           ELSE TokensOf(k) = {}

\* C23 as stated: the text of every such element is in the emitted text
C23_AsStated == xpc = "end" => \A k \in Inline : Emitted(k)

\* the catalog program emitted a text node and the element after it as one line
C23_Witness ==
  /\ variant = "catalog" /\ xpc = "end" /\ Len(nodes) = 2
  /\ nodes[1].kind = "text" /\ nodes[1].text = <<"b">> /\ nodes[2].kind = "other"
  /\ result = <<Token("text", <<"b", "a">>, <<>>, {1, 2})>>

\* the last step read the next-chapter sentinel in the last footer link
AtSentinel == last.act = "EndOfChain" /\ "sentinel" \in last.ops

\* C24 (as amended): when the last footer link reads the next-chapter sentinel the
\* page loop ends after that page with no click and no navigation.  The scrape
\* program records the referenced URL, and uses it later: when the first
\* navigation to a chapter fails, it navigates to the recorded URL instead.  The
\* catalog program does not look for the sentinel and records nothing
C24_NextChapterSentinel ==
  /\ AtSentinel =>
       /\ pc = "write" /\ pageNo = chain
       /\ last.ops \cap {"nav", "follow"} = {}
       /\ nextChapterUrl = (IF variant = "scrape" THEN <<v, c>> ELSE NoUrl)
  /\ variant = "catalog" => nextChapterUrl = NoUrl
  /\ last.act = "Fallback" =>
       /\ variant = "scrape" /\ "nav" \in last.ops
       /\ nextChapterUrl # NoUrl

\* C24 as stated: the URL is recorded, the loop ends, and no navigation ever goes
\* to a recorded URL
C24_AsStated ==
  /\ AtSentinel => pc = "write" /\ nextChapterUrl = <<v, c>>
  /\ last.act # "Fallback"

\* the scrape program recorded the URL on the second page of a chapter
C24_Witness ==
  /\ variant = "scrape" /\ AtSentinel /\ pc = "write"
  /\ pageNo = 2 /\ chain = 2 /\ Len(passes) = 2
  /\ nextChapterUrl = <<v, c>>

\* the sample shows the loaded marker class, a source attribute or a positive
\* natural width
Shows(st) == st.lazy \/ st.hasSrc \/ st.nw > 0

\* the readiness poll is over
PastLazy == wpc \in {"stable", "capture", "done"}

\* C25: the readiness poll ends at the first sample that shows the marker, a
\* source or a natural width, and otherwise once the timeout has elapsed, after
\* at most one sample per polling interval; either way the image goes on to the
\* stability wait and the capture, and its token is pushed
C25_LazyWait ==
  /\ [](\A i \in 1..Len(lazySeen) : Shows(lazySeen[i]) => (i = Len(lazySeen) /\ PastLazy))
  /\ [](PastLazy =>
         /\ lazyReady <=> (lazySeen # <<>> /\ Shows(lazySeen[Len(lazySeen)]))
         /\ ~lazyReady => lazyClock >= MaxLazyPolls)
  /\ [](Len(lazySeen) <= MaxLazyPolls /\ lazyClock <= MaxLazyPolls + 1)
  /\ [](wpc = "done" => pushed /\ seen # <<>> /\ shot.how # "none")
  /\ <>(wpc = "done")

\* the poll timed out and the image was captured and its token pushed all the same
C25_Witness ==
  /\ wpc = "done" /\ ~lazyReady /\ Len(lazySeen) = MaxLazyPolls
  /\ lazyClock = MaxLazyPolls /\ shot.how = "taken" /\ pushed

\* the sample has a positive width and height
Sized(r) == IF r = NoRect THEN FALSE ELSE r.w > 0 /\ r.h > 0

\* two sized samples differ by less than 1 pixel in x, y, width and height
Near(a, b) ==
  /\ Abs(a.x - b.x) < 10 /\ Abs(a.y - b.y) < 10
  /\ Abs(a.w - b.w) < 10 /\ Abs(a.h - b.h) < 10

\* the stability loop is over, and it was left before its timeout
PastStable == wpc \in {"capture", "done"}
Early == PastStable /\ stableClock < MaxStablePolls

\* the sample that opened the run of agreeing samples counted by stableCount
RunStart == seen[Len(seen) - stableCount + 1]

PassStep == variant = "scrape" /\ pc = "extract" /\ last'.act = "ExtractPass"

\* the step hands the record of the scrape program to the file system
RecordStep == variant = "scrape" /\ pc = "write" /\ last'.act = "WriteRecord"

\* C27: every pass of the page loop of the scrape program adds one entry after
\* the entries of the earlier passes, which stay as they are, and goes on to the
\* footer check, also when the extraction throws (the entry is then empty); the
\* record written has these entries, one per pass and at least one, in the order
\* of the passes, and the pages of the passes never go back
C27_EntryPerPass ==
  /\ [][PassStep =>
          /\ Len(passes') = Len(passes) + 1
          /\ SubSeq(passes', 1, Len(passes)) = passes
          /\ passes'[Len(passes')].page = pageNo
          /\ "threw" \in last'.ops => passes'[Len(passes')].out = "empty"
          /\ pc' = "checknext"]_vars
  /\ [][RecordStep =>
          /\ Len(last'.rec.contents) = Len(passes) /\ Len(passes) >= 1
          /\ \A i \in 1..Len(passes) :
               last'.rec.contents[i] = (IF passes[i].out = "tokens" THEN "tokens" ELSE "empty")]_vars
  /\ [](variant = "scrape" =>
          \A i \in 1..(Len(passes) - 1) : passes[i].page <= passes[i + 1].page)

\* the scrape program wrote a record whose first page gave nothing and whose
\* second page gave tokens
C27_Witness ==
  /\ variant = "scrape" /\ Wrote /\ last.act = "WriteRecord"
  /\ last.rec.contents = <<"empty", "tokens">>

\* the chapter entry whose first navigation failed in the last step
FailedEntry == IF last.act = "Fallback" THEN c ELSE c - 1

\* C28: when the first navigation to a chapter fails, the fallback navigation
\* goes to the URL recorded while walking the entry just before it in the volume
C28_FallbackTarget ==
  (variant = "scrape" /\ last.act \in {"OpenChapterFail", "Fallback"}) =>
    /\ nextChapterUrl # NoUrl
    /\ nextChapterUrl = <<v, FailedEntry - 1>>

\* C29: at most one chapter page is open at any time, and none is open when the
\* next chapter entry is taken up or when the run has ended
C29_OnePageInFlight ==
  /\ openPages <= 1
  /\ pc \in {"chapter", "volume", "finish", "done"} => openPages = 0

====
